---- MODULE Spec2Model ----
(***************************************************************************)
(* A model of the LLM visibility engine of optisense.ai:                   *)
(*   backend/src/services/llmService.js        (analyzeLLMVisibility,      *)
(*                                              analyzeResponse)           *)
(*   backend/src/services/multiLLMService.js   (analyzeWithMultipleLLMs)   *)
(*   modelHealthCheckService (unnamed/part_006) (health cache)             *)
(*   warningRecommendationService (unnamed/part_010)                       *)
(*                                                                         *)
(* Texts are sequences of one-character strings, so that toLowerCase,      *)
(* includes, split and the regular expressions of the source are computed  *)
(* character by character.                                                 *)
(***************************************************************************)
EXTENDS Integers, Sequences, FiniteSets, TLC

VARIABLES
    \* ---- analyzeResponse applied to one input (SpecAnalyzer)
    aDomain,        \* the target domain handed to analyzeResponse
    aResponse,      \* the provider response: [text, parsed]
    aResult,        \* NoResult, or what analyzeResponse returned
    \* ---- one run of analyzeLLMVisibility (SpecRun)
    url,            \* the url argument
    isPremium,      \* options.isPremium
    businessInfo,   \* options.businessInfo is truthy
    geminiStub,     \* what the Gemini provider answers, call after call
    or1Stub,        \* what OpenRouter answers for sherlock-dash-alpha
    or2Stub,        \* what OpenRouter answers for mistral-7b-instruct
    geminiCalls,    \* number of generateContent calls made so far
    orCalls,        \* number of OpenRouter calls made so far, per branch
    pc,             \* position of the run
    promptsToUse,   \* the selected prompt set
    idx,            \* index of the prompt being processed (1-based)
    attempt,        \* the retry loop's attempt counter
    analysisResult, \* the analysisResult of the prompt being processed
    results,        \* details
    totalScore,
    totalTokens,    \* the sum of the token estimates of the analysed prompts
    report,         \* NoReport, or the returned report
    promptLog,      \* provider calls and sleeps made for the current prompt
    \* ---- analyzeWithMultipleLLMs, branch by branch (SpecMulti)
    mBranch,        \* per branch: Pending, or what its wrapped promise settled to
    mValue,         \* the branches' values analyzeLLMVisibility got back
    mErrors,        \* results.errors
    mResults,       \* NoResult, or the returned results object
    mOutcome,       \* per branch: what the provider does for it
    \* ---- health cache and generateWarningRecommendation (SpecWarn)
    healthStatus,   \* the module-level cache {lastChecked, models}
    wPc,            \* position of generateWarningRecommendation
    wSelected,      \* selectedModel
    wIdx,           \* index into MODEL_PRIORITY of the request loop
    wAttempt,       \* tryModelRequest's attempt counter
    wRequests,      \* the requests sent and the waits taken, in order
    wHealthAt,      \* isModelHealthy of each model of MODEL_PRIORITY at selection
    wReturn,        \* "none", or the model tag of the returned recommendation
    warning,        \* the warning argument: "string", or "number" for another truthy value
    wLast,          \* "none", or what the last request to OpenRouter gave
    probeLog,       \* the keys of the models checkAllModels sent a probe for
    hReturn,        \* NoResult, or what the last checkAllModels returned
    hQuery,         \* NoResult, or the last isModelHealthy call and its answer
    \* ---- process.env
    openrouterKey,  \* OPENROUTER_API_KEY is set
    geminiKey,      \* GEMINI_API_KEY is set
    huggingfaceKey, \* HUGGINGFACE_API_KEY is set
    \* ---- POST /api/analyze, request by request (SpecFreeTier, SpecAnonymous)
    dbUser,         \* the stored User document of the one signed-up user
    dbAnonymousScans, \* the stored AnonymousScan documents
    dbScans,        \* per request: the status of its stored Scan document
    reqs,           \* the requests: [token, visitorId, ip, fingerprint]
    rPc,            \* per request: position of the handler
    rUser,          \* per request: req.user, the document optionalAuth loaded
    rRes,           \* per request: NoResult, or the response sent
    \* ---- the rate limiters of createRateLimiter (SpecLimiter)
    now,            \* Date.now(), in minutes
    rateLimitStore, \* per key: NoResult, or {count, resetAt, expiresAt}
    limiter,        \* the options of the limiter the requests go through
    admitted,       \* per key: requests passed on in the window opened last
    lastAnswer,     \* NoResult, or what the last request of a key was answered
    \* ---- the OTP routes of /api/auth (SpecAuth)
    authUser,       \* NoResult, or the User document of the email
    otpsSent,       \* number of OTPs mailed to the email so far
    presented,      \* who presented the OTP sent last, correctly and in time
    lastVerify,     \* NoResult, or the last verify-otp request and its answer
    \* ---- checkAllModels calls in flight together (SpecOverlap)
    calls,          \* per call: position, the probe answers so far, results
    finishOrder     \* the calls that have returned, in the order they did

analyzerVars == <<aDomain, aResponse, aResult>>
runVars == <<url, isPremium, businessInfo, geminiStub, or1Stub, or2Stub,
             geminiCalls, orCalls, pc, promptsToUse, idx, attempt,
             analysisResult, results, totalScore, totalTokens, report, promptLog>>
multiVars == <<mBranch, mValue, mErrors, mResults, mOutcome>>
healthLog == <<probeLog, hReturn, hQuery>>
warnVars == <<healthStatus, wPc, wSelected, wIdx, wAttempt,
              wRequests, wHealthAt, wReturn, warning, wLast, healthLog>>
envVars == <<openrouterKey, geminiKey, huggingfaceKey>>
requestVars == <<dbUser, dbAnonymousScans, dbScans, reqs, rPc, rUser, rRes>>
limiterVars == <<now, rateLimitStore, limiter, admitted, lastAnswer>>
authVars == <<authUser, otpsSent, presented, lastVerify>>
checkVars == <<calls, finishOrder>>
vars == <<analyzerVars, runVars, multiVars, warnVars, envVars, requestVars, limiterVars,
          authVars, checkVars>>

(***************************************************************************)
(* Texts                                                                   *)
(***************************************************************************)
Uppers == <<"A","B","C","D","E","F","G","H","I","J","K","L","M",
            "N","O","P","Q","R","S","T","U","V","W","X","Y","Z">>
Lowers == <<"a","b","c","d","e","f","g","h","i","j","k","l","m",
            "n","o","p","q","r","s","t","u","v","w","x","y","z">>

LowerChar(c) ==
    IF \E i \in 1..Len(Uppers) : Uppers[i] = c
    THEN Lowers[CHOOSE i \in 1..Len(Uppers) : Uppers[i] = c]
    ELSE c

\* String.prototype.toLowerCase
toLowerCase(s) == [i \in 1..Len(s) |-> LowerChar(s[i])]

\* s has t at position i (1-based)
StartsAt(s, i, t) ==
    /\ i + Len(t) - 1 <= Len(s)
    /\ \A k \in 1..Len(t) : s[i + k - 1] = t[k]

\* String.prototype.includes
includes(s, t) == \E i \in 1..(Len(s) - Len(t) + 1) : StartsAt(s, i, t)

\* s from position i to its end
From(s, i) == SubSeq(s, i, Len(s))

\* String.prototype.split(sep)[0] for a set of one-character separators
SplitFirst(s, seps) ==
    LET at == {k \in 1..Len(s) : s[k] \in seps}
    IN  IF at = {} THEN s
        ELSE SubSeq(s, 1, (CHOOSE k \in at : \A j \in at : k <= j) - 1)

\* String.prototype.replace(/\./g, r)
RECURSIVE ReplaceDots(_, _)
ReplaceDots(s, r) ==
    IF s = <<>> THEN <<>>
    ELSE (IF Head(s) = "." THEN r ELSE <<Head(s)>>) \o ReplaceDots(Tail(s), r)

\* String.prototype.replace(pattern, '') for a string pattern: the first
\* occurrence only
RemoveFirst(s, t) ==
    LET at == {i \in 1..(Len(s) - Len(t) + 1) : StartsAt(s, i, t)}
    IN  IF at = {} THEN s
        ELSE LET i == CHOOSE k \in at : \A j \in at : k <= j
             IN  SubSeq(s, 1, i - 1) \o From(s, i + Len(t))

HTTP == <<"h","t","t","p",":","/","/">>
HTTPS == <<"h","t","t","p","s",":","/","/">>
WWW == <<"w","w","w",".">>

\* length of the match of /^https?:\/\// at position i of s, 0 if none
SchemeLenAt(s, i) ==
    IF StartsAt(s, i, HTTPS) THEN Len(HTTPS)
    ELSE IF StartsAt(s, i, HTTP) THEN Len(HTTP)
    ELSE 0

\* s.replace(/^https?:\/\/(www\.)?/, '')
StripScheme(s) ==
    LET n == SchemeLenAt(s, 1)
    IN  IF n = 0 THEN s
        ELSE IF StartsAt(s, n + 1, WWW) THEN From(s, n + Len(WWW) + 1)
        ELSE From(s, n + 1)

\* s.replace(/\/$/, '')
StripTrailingSlash(s) ==
    IF Len(s) > 0 /\ s[Len(s)] = "/" THEN SubSeq(s, 1, Len(s) - 1) ELSE s

\* llmService.js normalizeDomain
normalizeDomain(domain) ==
    SplitFirst(StripTrailingSlash(StripScheme(toLowerCase(domain))), {"/"})

\* the characters that end a match of /https?:\/\/[^\s<>"]+/
UrlStop == {" ", "\n", "\t", "<", ">", "\""}

\* response.match(/https?:\/\/[^\s<>"]+/g) || [], scanning from position i
RECURSIVE MatchUrls(_, _)
MatchUrls(s, i) ==
    IF i > Len(s) THEN <<>>
    ELSE LET n == SchemeLenAt(s, i)
             stops == {k \in (i + n)..Len(s) : s[k] \in UrlStop}
             end == IF stops = {} THEN Len(s)
                    ELSE (CHOOSE k \in stops : \A j \in stops : k <= j) - 1
         IN  IF n > 0 /\ end >= i + n
             THEN <<SubSeq(s, i, end)>> \o MatchUrls(s, end + 1)
             ELSE MatchUrls(s, i + 1)

\* Math.round of a number given in halves (5 is 2.5): halves round up
MathRoundHalves(h) == (h + 1) \div 2

(***************************************************************************)
(* JSON values of the shape the prompts ask the providers for.  An object  *)
(* carries the set of keys it has; Null is JavaScript's null.  The key     *)
(* "citationsNumber" stands for a citations member that holds a number     *)
(* instead of an array, "descriptionNumber" for a description member that  *)
(* holds a number instead of a string.                                     *)
(***************************************************************************)
AllKeys == {"description", "citations", "mentionsDomain", "reasoning"}

MkObj(keys, d, c, m, r) ==
    [kind |-> "object", keys |-> keys, description |-> d, citations |-> c,
     mentionsDomain |-> m, reasoning |-> r]

Null == [kind |-> "null", keys |-> {}, description |-> <<>>,
         citations |-> <<>>, mentionsDomain |-> FALSE, reasoning |-> <<>>]

\* the object {}
EmptyObj == MkObj({}, <<>>, <<>>, FALSE, <<>>)

Q == <<"\"">>
KeyDescription == <<"d","e","s","c","r","i","p","t","i","o","n">>
KeyCitations == <<"c","i","t","a","t","i","o","n","s">>
KeyMentionsDomain == <<"m","e","n","t","i","o","n","s","D","o","m","a","i","n">>
KeyReasoning == <<"r","e","a","s","o","n","i","n","g">>
TextTrue == <<"t","r","u","e">>
TextFalse == <<"f","a","l","s","e">>

RECURSIVE JoinComma(_)
JoinComma(parts) ==
    IF parts = <<>> THEN <<>>
    ELSE IF Len(parts) = 1 THEN parts[1]
    ELSE parts[1] \o <<",">> \o JoinComma(Tail(parts))

JsonString(t) == Q \o t \o Q

JsonMember(key, value) == Q \o key \o Q \o <<":">> \o value

\* JSON.stringify of an object of this shape (the texts of the model hold no
\* character that JSON escapes)
JSONstringify(o) ==
    LET members ==
            (IF "description" \in o.keys
             THEN <<JsonMember(KeyDescription, JsonString(o.description))>>
             ELSE <<>>)
         \o (IF "descriptionNumber" \in o.keys
             THEN <<JsonMember(KeyDescription, <<"5">>)>>
             ELSE <<>>)
         \o (IF "citations" \in o.keys
             THEN <<JsonMember(KeyCitations,
                      <<"[">> \o JoinComma([i \in 1..Len(o.citations) |->
                                              JsonString(o.citations[i])])
                              \o <<"]">>)>>
             ELSE <<>>)
         \o (IF "citationsNumber" \in o.keys
             THEN <<JsonMember(KeyCitations, <<"5">>)>>
             ELSE <<>>)
         \o (IF "mentionsDomain" \in o.keys
             THEN <<JsonMember(KeyMentionsDomain,
                      IF o.mentionsDomain THEN TextTrue ELSE TextFalse)>>
             ELSE <<>>)
         \o (IF "reasoning" \in o.keys
             THEN <<JsonMember(KeyReasoning, JsonString(o.reasoning))>>
             ELSE <<>>)
    IN  <<"{">> \o JoinComma(members) \o <<"}">>

(***************************************************************************)
(* llmService.js analyzeResponse                                           *)
(***************************************************************************)
\* the four spellings of the domain looked for in a text
domainVariants(normalizedDomain) ==
    { normalizedDomain,
      WWW \o normalizedDomain,
      ReplaceDots(normalizedDomain, <<" ">>),
      ReplaceDots(normalizedDomain, <<" ","d","o","t"," ">>) }

\* a filter that keeps a citation only when its host equals the domain
CitationMatchesEqual(u, normalizedDomain) == normalizeDomain(u) = normalizedDomain

\* the filter on parsedResponse.citations
CitationMatches(u, normalizedDomain) ==
    LET urlDomain == normalizeDomain(u)
    IN  includes(urlDomain, normalizedDomain) \/ includes(normalizedDomain, urlDomain)

parsedCitations(parsedResponse, normalizedDomain) ==
    LET Keep(u) == CitationMatches(u, normalizedDomain)
    IN  IF "citations" \in parsedResponse.keys
        THEN SelectSeq(parsedResponse.citations, Keep)
        ELSE <<>>

\* a mention test that takes the presence of mentionsDomain for its truth
parsedMentionedAnyFlag(parsedResponse, normalizedDomain) ==
    \/ "mentionsDomain" \in parsedResponse.keys
    \/ /\ "description" \in parsedResponse.keys
       /\ \E variant \in domainVariants(normalizedDomain) :
              includes(toLowerCase(parsedResponse.description), variant)

parsedMentioned(parsedResponse, normalizedDomain) ==
    \/ /\ "mentionsDomain" \in parsedResponse.keys
       /\ parsedResponse.mentionsDomain = TRUE
    \/ /\ "description" \in parsedResponse.keys
       /\ parsedResponse.description # <<>>
       /\ LET descLower == toLowerCase(parsedResponse.description)
          IN  \E variant \in domainVariants(normalizedDomain) :
                  includes(descLower, variant)

\* the plain-text fallback
textCitations(response, normalizedDomain) ==
    LET Keep(u) == includes(normalizeDomain(u), normalizedDomain)
    IN  SelectSeq(MatchUrls(response, 1), Keep)

textMentioned(response, normalizedDomain) ==
    \E variant \in domainVariants(normalizedDomain) :
        includes(toLowerCase(response), variant)

\* response.split(/[.!?]/)[0] holds the normalized domain
inFirstSentence(response, normalizedDomain) ==
    includes(toLowerCase(SplitFirst(response, {".", "!", "?"})), normalizedDomain)

\* a scoring that rounds down (Math.floor for Math.round)
scoringFloor(citations, mentioned, first) ==
    IF Len(citations) > 0
    THEN [score |-> 3, confidence |-> "high"]
    ELSE IF mentioned
    THEN [score |-> 2, confidence |-> "medium"]
    ELSE [score |-> 0, confidence |-> "low"]

\* the scoring logic; the score is counted in halves until it is rounded
scoring(citations, mentioned, first) ==
    IF Len(citations) > 0
    THEN [score |-> MathRoundHalves(6), confidence |-> "high"]
    ELSE IF mentioned
    THEN [score |-> MathRoundHalves(IF first THEN 5 ELSE 4), confidence |-> "medium"]
    ELSE [score |-> MathRoundHalves(0), confidence |-> "low"]

analyzeResponse(response, domain, parsedResponse) ==
    LET normalizedDomain == normalizeDomain(domain)
        isObject == parsedResponse.kind = "object"
        citations == IF isObject
                     THEN parsedCitations(parsedResponse, normalizedDomain)
                     ELSE textCitations(response, normalizedDomain)
        mentioned == IF isObject
                     THEN parsedMentioned(parsedResponse, normalizedDomain)
                     ELSE textMentioned(response, normalizedDomain)
        s == scoring(citations, mentioned, inFirstSentence(response, normalizedDomain))
    IN  [mentioned |-> mentioned, score |-> s.score, citations |-> citations,
         confidence |-> s.confidence]

(***************************************************************************)
(* llmService.js extractDomain, for urls that new URL() accepts: the host  *)
(* is what follows the scheme up to the first of / ? # : and is lowercased *)
(***************************************************************************)
extractDomain(u) ==
    LET n == SchemeLenAt(u, 1)
    IN  IF n > 0 /\ Len(u) > n
        THEN RemoveFirst(toLowerCase(SplitFirst(From(u, n + 1), {"/", "?", "#", ":"})), WWW)
        ELSE SplitFirst(StripScheme(u), {"/"})

NoResult == [none |-> TRUE]

(***************************************************************************)
(* SpecAnalyzer: analyzeResponse applied to one input                      *)
(***************************************************************************)
\* bound: a raw text is made of at most this many fragments
MaxFrags == 3

DomAB == <<"a",".","b">>
DomLocal == <<"a","b">>
UrlAB == HTTPS \o DomAB

Fragments ==
    { <<" ">>, <<".">>, <<"/">>, <<"A">>, <<"b">>, <<"x">>, <<"!">>,
      HTTPS, HTTP, WWW, DomAB, DomLocal }

RECURSIVE Concats(_)
Concats(n) ==
    IF n = 0 THEN {<<>>}
    ELSE LET shorter == Concats(n - 1)
         IN  shorter \cup {t \o f : t \in shorter, f \in Fragments}

\* the urls analyzeLLMVisibility is called with
AnalyzerUrls ==
    { HTTPS \o DomAB,
      HTTPS \o WWW \o DomAB \o <<"/","x">>,
      HTTP \o <<"A",".","b">>,
      HTTP \o DomLocal \o <<":","8">>,
      HTTPS \o WWW \o WWW \o DomAB }

DescTexts ==
    { <<>>, <<"x">>, DomAB, <<"A",".","b"," ","x">>, <<"a"," ","b">>,
      <<"a"," ","d","o","t"," ","b">>, <<"x",".","a","b">>, <<"a","b",".">>,
      <<"s","e","e"," ">> \o UrlAB }

CitationLists ==
    { <<>>, <<UrlAB \o <<"/">> >>, <<HTTPS \o <<"x",".","y">> >>,
      <<HTTPS \o <<"x",".","y">>, HTTP \o WWW \o DomAB \o <<"/","p">> >>,
      <<HTTP \o DomLocal>>, << <<"b">> >>, <<UrlAB \o <<"?","q">> >>,
      <<HTTPS \o <<"s",".">> \o DomAB, UrlAB>> }

AnalyzerObjs ==
    { MkObj(k, d, c, m, r) :
        k \in {AllKeys, AllKeys \ {"reasoning"}, AllKeys \ {"citations"}},
        d \in DescTexts, c \in CitationLists, m \in BOOLEAN,
        r \in {<<>>, UrlAB} }
    \cup {EmptyObj}

AnalyzerInputs ==
    { [text |-> JSONstringify(o), parsed |-> o] : o \in AnalyzerObjs }
    \cup { [text |-> t, parsed |-> Null] : t \in Concats(MaxFrags) }

\* the other parts of the model at rest
RunIdle ==
    /\ url = <<>> /\ isPremium = FALSE /\ businessInfo = FALSE
    /\ geminiStub = <<>> /\ or1Stub = <<>> /\ or2Stub = <<>>
    /\ geminiCalls = 0 /\ orCalls = 0
    /\ pc = "idle" /\ promptsToUse = <<>> /\ idx = 0 /\ attempt = 0
    /\ analysisResult = NoResult /\ results = <<>> /\ totalScore = 0
    /\ totalTokens = 0
    /\ report = NoResult /\ promptLog = <<>>

MultiIdle ==
    /\ mBranch = <<>> /\ mValue = <<>> /\ mErrors = <<>>
    /\ mResults = NoResult /\ mOutcome = <<>>

AnalyzerIdle == aDomain = <<>> /\ aResponse = NoResult /\ aResult = NoResult

\* the keys the analysis itself does not read are set
OtherKeysSet == geminiKey = TRUE /\ huggingfaceKey = TRUE

\* no request has gone through a rate limiter
LimiterIdle ==
    /\ now = 0 /\ rateLimitStore = <<>> /\ limiter = NoResult
    /\ admitted = <<>> /\ lastAnswer = NoResult

\* no request of POST /api/analyze was received
AnalyzeIdle ==
    /\ dbUser = NoResult /\ dbAnonymousScans = {} /\ dbScans = <<>>
    /\ reqs = <<>> /\ rPc = <<>> /\ rUser = <<>> /\ rRes = <<>>

\* no OTP was asked for
AuthIdle ==
    /\ authUser = NoResult /\ otpsSent = 0
    /\ presented = {} /\ lastVerify = NoResult

\* no checkAllModels call besides the one of CheckAllModels
ChecksIdle == calls = <<>> /\ finishOrder = <<>>

RequestsIdle == AnalyzeIdle /\ LimiterIdle /\ AuthIdle /\ ChecksIdle

\* generateWarningRecommendation not called and the cache empty
WarnNotCalled ==
    /\ healthStatus = [lastChecked |-> 0, order |-> <<>>, models |-> <<>>]
    /\ wPc = "idle" /\ wSelected = "none"
    /\ wIdx = 0 /\ wAttempt = 0 /\ wRequests = <<>> /\ wHealthAt = <<>>
    /\ wReturn = "none" /\ wLast = "none"
    /\ probeLog = <<>> /\ hReturn = NoResult /\ hQuery = NoResult

WarnIdle == WarnNotCalled /\ warning = "string"

InitAnalyzer ==
    /\ \E u \in AnalyzerUrls : aDomain = extractDomain(u)
    /\ aResponse \in AnalyzerInputs
    /\ aResult = NoResult
    /\ openrouterKey = FALSE /\ OtherKeysSet
    /\ RequestsIdle /\ RunIdle /\ MultiIdle /\ WarnIdle

\* const analysis = analyzeResponse(responseText, domain, parsedResponse)
Analyze ==
    /\ aResult = NoResult
    /\ aResult' = analyzeResponse(aResponse.text, aDomain, aResponse.parsed)
    /\ UNCHANGED <<aDomain, aResponse, runVars, multiVars, warnVars, envVars, requestVars, limiterVars, authVars, checkVars>>

NextAnalyzer == Analyze

SpecAnalyzer == InitAnalyzer /\ [][NextAnalyzer]_vars

(***************************************************************************)
(* Claims about analyzeResponse                                            *)
(***************************************************************************)
Analyzed == aResult # NoResult

HostChars ==
    {Uppers[i] : i \in 1..Len(Uppers)} \cup {Lowers[i] : i \in 1..Len(Lowers)}
    \cup {"0","1","2","3","4","5","6","7","8","9",".","-"}

\* t has at position i an http(s) url whose host is exactly the domain d
ExactUrlAt(t, i, d) ==
    LET n == SchemeLenAt(t, i)
    IN  /\ n > 0
        /\ StartsAt(toLowerCase(t), i + n, toLowerCase(d))
        /\ \/ i + n + Len(d) > Len(t)
           \/ t[i + n + Len(d)] \notin HostChars

TextHasExactUrl(t, d) == \E i \in 1..Len(t) : ExactUrlAt(t, i, d)

C2_Case ==
    IF aResponse.parsed.kind = "object"
    THEN /\ "citations" \in aResponse.parsed.keys
         /\ \E k \in 1..Len(aResponse.parsed.citations) :
                ExactUrlAt(aResponse.parsed.citations[k], 1, aDomain)
    ELSE /\ ~StartsAt(aDomain, 1, WWW)
         /\ \E i \in 1..Len(aResponse.text) :
                /\ ExactUrlAt(aResponse.text, i, aDomain)
                /\ (i = 1 \/ aResponse.text[i - 1] \in UrlStop)

C3_Case ==
    /\ aResponse.parsed.kind = "object"
    /\ "description" \in aResponse.parsed.keys
    /\ \E variant \in domainVariants(normalizeDomain(aDomain)) :
           includes(toLowerCase(aResponse.parsed.description), variant)
    /\ \/ "citations" \notin aResponse.parsed.keys
       \/ \A k \in 1..Len(aResponse.parsed.citations) :
              ~CitationMatches(aResponse.parsed.citations[k], normalizeDomain(aDomain))

\* the normalized domain stands in the response before its first . ! or ?
C3_First ==
    LET t == toLowerCase(aResponse.text)
        nd == normalizeDomain(aDomain)
    IN  \E i \in 1..Len(t) :
            /\ StartsAt(t, i, nd)
            /\ \A k \in 1..(i + Len(nd) - 1) : t[k] \notin {".", "!", "?"}

C3_WitnessTwo == Analyzed /\ C3_Case /\ ~C3_First /\ aResult.score = 2

\* neither a matching citation nor a mention
C4_Case ==
    LET nd == normalizeDomain(aDomain)
        p == aResponse.parsed
    IN  IF p.kind = "object"
        THEN /\ \/ "citations" \notin p.keys
                \/ \A k \in 1..Len(p.citations) : ~CitationMatches(p.citations[k], nd)
             /\ ~("mentionsDomain" \in p.keys /\ p.mentionsDomain)
             /\ \/ "description" \notin p.keys
                \/ \A variant \in domainVariants(nd) :
                       ~includes(toLowerCase(p.description), variant)
        ELSE \A variant \in domainVariants(nd) :
                 ~includes(toLowerCase(aResponse.text), variant)

C4_WitnessText ==
    /\ Analyzed /\ C4_Case /\ aResult.score = 0
    /\ aResponse.parsed.kind = "null"
    /\ MatchUrls(aResponse.text, 1) # <<>>

(***************************************************************************)
(* The providers.  A stub is the sequence of outcomes a provider gives,    *)
(* call after call, starting over at its end.  An outcome is an error with *)
(* its message or a response with its text.                                *)
(***************************************************************************)
GErr(msg) == [kind |-> "error", text |-> msg]
GText(t) == [kind |-> "text", text |-> t]

Msg503 == <<"5","0","3">>
MsgOverloaded == <<"o","v","e","r","l","o","a","d","e","d">>
MsgUnavailable == <<"S","e","r","v","i","c","e"," ","U","n","a","v","a","i","l","a","b","l","e">>
Msg429 == <<"4","2","9">>
Msg404 == <<"4","0","4">>

\* the grave accent, a character TLA+ strings cannot hold
GraveAccent == "grave-accent"
Fence == <<GraveAccent, GraveAccent, GraveAccent>>
FenceJson == Fence \o <<"j","s","o","n">>

ObjCite == MkObj(AllKeys \ {"reasoning"}, <<"x">>, <<UrlAB \o <<"/">> >>, TRUE, <<>>)
ObjNone == MkObj(AllKeys \ {"reasoning"}, <<"x">>, <<>>, FALSE, <<>>)
ObjBadCitations == MkObj({"description", "citationsNumber"}, <<"x">>, <<>>, FALSE, <<>>)
ObjBadDescription == MkObj({"descriptionNumber", "citations", "mentionsDomain"}, <<>>, <<>>, FALSE, <<>>)
TextMention == <<"a",".","b"," ","x">>
TextFencedCite == FenceJson \o <<"\n">> \o JSONstringify(ObjCite) \o <<"\n">> \o Fence

\* the JSON objects a provider of the model writes
JsonUniverse == {ObjCite, ObjNone, ObjBadCitations, ObjBadDescription, EmptyObj}

\* JSON.parse: the object whose text this is, Null when the text is no JSON
ParseJSON(t) ==
    IF \E o \in JsonUniverse : JSONstringify(o) = t
    THEN CHOOSE o \in JsonUniverse : JSONstringify(o) = t
    ELSE Null

\* s.replace(pat followed by an optional newline, '') for every occurrence
RECURSIVE RemoveAllWithNewline(_, _)
RemoveAllWithNewline(s, pat) ==
    LET at == {k \in 1..Len(s) : StartsAt(s, k, pat)}
    IN  IF at = {} THEN s
        ELSE LET i == CHOOSE k \in at : \A j \in at : k <= j
                 n == IF StartsAt(s, i + Len(pat), <<"\n">>) THEN Len(pat) + 1 ELSE Len(pat)
             IN  SubSeq(s, 1, i - 1) \o RemoveAllWithNewline(From(s, i + n), pat)

WhiteSpace == {" ", "\n", "\t"}

\* String.prototype.trim
trim(s) ==
    LET ink == {k \in 1..Len(s) : s[k] \notin WhiteSpace}
    IN  IF ink = {} THEN <<>>
        ELSE SubSeq(s, CHOOSE k \in ink : \A j \in ink : k <= j,
                       CHOOSE k \in ink : \A j \in ink : k >= j)

\* responseText.replace(/'''json\n?/g, '').replace(/'''\n?/g, '').trim(), with
\* grave accents where this comment has apostrophes
stripFences(t) == trim(RemoveAllWithNewline(RemoveAllWithNewline(t, FenceJson), Fence))

\* the test of the retry loop on error.message
is503Error(message) ==
    \/ includes(message, Msg503)
    \/ includes(message, MsgUnavailable)
    \/ includes(message, MsgOverloaded)

maxRetries == 3
baseDelay == 1000
promptPause == 500

\* the delay before the retry that follows the failed attempt
retryDelay(att) == baseDelay * 2^att

\* a retry loop that goes on after any error
shouldRetryAnyError(message, att) == att < maxRetries - 1

\* a retry loop that gives up one attempt early
shouldRetryOnce(message, att) == is503Error(message) /\ att < maxRetries - 2

\* is503Error && attempt < maxRetries - 1
shouldRetry(message, att) == is503Error(message) /\ att < maxRetries - 1

(***************************************************************************)
(* multiLLMService.js: the three branches of analyzeWithMultipleLLMs       *)
(***************************************************************************)
Branches == <<"gemini", "openrouter1", "openrouter2">>

\* what a branch's own promise settles to
Fulfilled(v, called) == [state |-> "fulfilled", value |-> v, error |-> <<>>, called |-> called]
Rejected(msg, called) == [state |-> "rejected", value |-> Null, error |-> msg, called |-> called]

FallbackObj(d, m) == MkObj({"description", "citations", "mentionsDomain"}, d, <<>>, m, <<>>)

GeminiFailed ==
    <<"G","e","m","i","n","i"," ","a","n","a","l","y","s","i","s"," ","f","a","i","l","e","d",":"," ">>
OpenRouterFailed ==
    <<"O","p","e","n","R","o","u","t","e","r"," ","a","n","a","l","y","s","i","s"," ","f","a","i","l","e","d",":"," ">>

analyzeWithGemini(out) ==
    IF out.kind = "error"
    THEN Rejected(GeminiFailed \o out.text, TRUE)
    ELSE LET responseText == stripFences(out.text)
             parsed == ParseJSON(responseText)
         IN  Fulfilled(IF parsed # Null THEN parsed ELSE FallbackObj(responseText, FALSE), TRUE)

\* an analyzeWithOpenRouter that fails without its key
analyzeWithOpenRouterStrict(out, domain, key) ==
    IF ~key \/ out.kind = "error" THEN Rejected(OpenRouterFailed \o out.text, key)
    ELSE LET content == IF out.text = <<>> THEN <<"{","}">> ELSE out.text
             parsed == ParseJSON(content)
         IN  Fulfilled(IF parsed # Null THEN parsed
                       ELSE FallbackObj(content,
                                includes(toLowerCase(content), toLowerCase(domain))),
                       TRUE)

analyzeWithOpenRouter(out, domain, key) ==
    IF ~key THEN Fulfilled(Null, FALSE)
    ELSE IF out.kind = "error" THEN Rejected(OpenRouterFailed \o out.text, TRUE)
    ELSE LET content == IF out.text = <<>> THEN <<"{","}">> ELSE out.text
             parsed == ParseJSON(content)
         IN  Fulfilled(IF parsed # Null THEN parsed
                       ELSE FallbackObj(content,
                                includes(toLowerCase(content), toLowerCase(domain))),
                       TRUE)

\* a branch handed to Promise.all without its .catch
catchBranchMissing(settled, provider) == [settled EXCEPT !.error = <<>>]

\* promise.catch(err => { results.errors.push(...); return null; })
catchBranch(settled, provider) ==
    IF settled.state = "rejected"
    THEN [state |-> "fulfilled", value |-> Null, called |-> settled.called,
          error |-> << [provider |-> provider, error |-> settled.error] >>]
    ELSE settled

(***************************************************************************)
(* llmService.js analyzeLLMVisibility                                      *)
(***************************************************************************)
\* the template texts are named, not spelled out
PROMPT_TEMPLATES ==
    << [id |-> <<"brand-knowledge">>, template |-> <<"builtin", 1>>,
        category |-> "brand-awareness"],
       [id |-> <<"website-understanding">>, template |-> <<"builtin", 2>>,
        category |-> "website-analysis"],
       [id |-> <<"authoritative-sources">>, template |-> <<"builtin", 3>>,
        category |-> "citation-capture"] >>

GeneratedPromptCount == 10

\* s.split(sep)
RECURSIVE SplitOn(_, _)
SplitOn(s, sep) ==
    LET at == {k \in 1..Len(s) : StartsAt(s, k, sep)}
    IN  IF at = {} THEN <<s>>
        ELSE LET i == CHOOSE k \in at : \A j \in at : k <= j
             IN  <<SubSeq(s, 1, i - 1)>> \o SplitOn(From(s, i + Len(sep)), sep)

\* responseText.match(/\[.*\]/s): from the first [ to the last ], <<>> when
\* there is no match
jsonMatch(t) ==
    LET opens == {k \in 1..Len(t) : t[k] = "["}
        closes == {k \in 1..Len(t) : t[k] = "]"}
    IN  IF opens = {} \/ closes = {} THEN <<>>
        ELSE LET first == CHOOSE k \in opens : \A j \in opens : k <= j
                 last == CHOOSE k \in closes : \A j \in closes : k >= j
             IN  IF first < last THEN SubSeq(t, first, last) ELSE <<>>

\* JSON.parse of the text of an array of strings: its elements; <<>> for [],
\* and for a text that is no such array (the caller asks for 10 elements)
ParseStringArray(m) ==
    IF Len(m) >= 4 /\ StartsAt(m, 1, <<"[", "\"">>) /\ StartsAt(m, Len(m) - 1, <<"\"", "]">>)
    THEN LET items == SplitOn(SubSeq(m, 3, Len(m) - 2), <<"\"", ",", "\"">>)
         IN  IF \E i \in 1..Len(items) : includes(items[i], Q) THEN <<>> ELSE items
    ELSE <<>>

Digits == {"0", "1", "2", "3", "4", "5", "6", "7", "8", "9"}

\* the length of the match of /^\d+\./ in s, 0 without a match
NumberDotLen(s) ==
    LET nondigit == {k \in 1..Len(s) : s[k] \notin Digits}
    IN  IF nondigit = {} THEN 0
        ELSE LET k == CHOOSE n \in nondigit : \A j \in nondigit : n <= j
             IN  IF k > 1 /\ s[k] = "." THEN k ELSE 0

\* the lines generateBusinessPrompts takes for prompts
isPromptLine(line) ==
    LET trimmed == trim(line)
    IN  /\ Len(trimmed) > 20
        /\ \/ NumberDotLen(trimmed) > 0
           \/ trimmed[1] \in {"-", "*"}
           \/ trimmed[1] = "\""

\* s without the white space it starts with
trimStart(s) ==
    LET ink == {k \in 1..Len(s) : s[k] \notin WhiteSpace}
    IN  IF ink = {} THEN <<>> ELSE From(s, CHOOSE k \in ink : \A j \in ink : k <= j)

\* line.replace(/^\d+\.\s*/, '').replace(/^[-*]\s*/, '')
\*     .replace(/^["']|["']$/g, '').trim()
cleanPromptLine(line) ==
    LET a == IF NumberDotLen(line) > 0 THEN trimStart(From(line, NumberDotLen(line) + 1)) ELSE line
        b == IF Len(a) > 0 /\ a[1] \in {"-", "*"} THEN trimStart(From(a, 2)) ELSE a
        c == IF Len(b) > 0 /\ b[1] \in {"\"", "'"} THEN From(b, 2) ELSE b
        e == IF Len(c) > 0 /\ c[Len(c)] \in {"\"", "'"} THEN SubSeq(c, 1, Len(c) - 1) ELSE c
    IN  trim(e)

\* part_007 getDefaultPrompts: ten texts made from the brand and the industry,
\* named here, not spelled out
getDefaultPrompts == [i \in 1..GeneratedPromptCount |-> <<"default", i>>]

\* part_007 generateBusinessPrompts: the first ten elements of a JSON array in
\* the answer, else the first ten prompt lines of the answer, else the
\* defaults; the defaults also when the provider call fails
generateBusinessPrompts(out) ==
    IF out.kind = "error" THEN getDefaultPrompts
    ELSE LET responseText == stripFences(out.text)
             prompts == ParseStringArray(jsonMatch(responseText))
             lines == SelectSeq(SplitOn(responseText, <<"\n">>), isPromptLine)
         IN  IF Len(prompts) >= GeneratedPromptCount
             THEN SubSeq(prompts, 1, GeneratedPromptCount)
             ELSE IF Len(lines) >= GeneratedPromptCount
             THEN [i \in 1..GeneratedPromptCount |-> cleanPromptLine(lines[i])]
             ELSE getDefaultPrompts

\* a selection that goes back to the built-in prompts when nothing was generated
customPromptsOrBuiltin(out) ==
    LET prompts == generateBusinessPrompts(out)
    IN  IF prompts = getDefaultPrompts THEN PROMPT_TEMPLATES
        ELSE [i \in 1..Len(prompts) |->
                [id |-> <<"custom-", i>>, template |-> prompts[i], category |-> "custom"]]

\* lines 58-73: the prompts of generateBusinessPrompts, tagged
customPrompts(out) ==
    LET prompts == generateBusinessPrompts(out)
    IN  [i \in 1..Len(prompts) |->
            [id |-> <<"custom-", i>>, template |-> prompts[i], category |-> "custom"]]

\* order-preserving [...new Set(xs)]
RECURSIVE Unique(_)
Unique(xs) ==
    IF xs = <<>> THEN <<>>
    ELSE LET init == Unique(SubSeq(xs, 1, Len(xs) - 1))
             last == xs[Len(xs)]
         IN  IF \E i \in 1..Len(init) : init[i] = last THEN init ELSE Append(init, last)

CitationsOf(v) == IF v # Null /\ "citations" \in v.keys THEN v.citations ELSE <<>>

\* the characters of a filled prompt and of the text the single-model
\* analysis puts before it; the texts of the prompts are named, not spelled out
PromptChars == 120
PreambleChars == 480

\* Math.ceil(n / 4)
tokenEstimate(n) == (n + 3) \div 4

\* parsedResponse.description.toLowerCase() of a description that is a number
\* throws a TypeError, with this message
MsgNotAFunction == <<"n","o","t"," ","a"," ","f","u","n","c","t","i","o","n">>

analyzeResponseThrows(parsedResponse) ==
    parsedResponse # Null /\ "descriptionNumber" \in parsedResponse.keys

\* the spread of a citations member that is no array throws a TypeError
spreadThrows(values) ==
    \E i \in 1..Len(values) : values[i] # Null /\ "citationsNumber" \in values[i].keys

\* lines 99-127: the analysisResult made of the three branches' values
aggregateMulti(values) ==
    LET primaryResponse ==
            IF values[1] # Null THEN values[1]
            ELSE IF values[2] # Null THEN values[2]
            ELSE IF values[3] # Null THEN values[3]
            ELSE EmptyObj
        uniqueCitations ==
            Unique(CitationsOf(values[1]) \o CitationsOf(values[2]) \o CitationsOf(values[3]))
    IN  [response |-> JSONstringify(primaryResponse),
         parsedResponse |-> primaryResponse,
         citations |-> uniqueCitations,
         mentioned |-> \/ Len(uniqueCitations) > 0
                       \/ ("mentionsDomain" \in primaryResponse.keys
                           /\ primaryResponse.mentionsDomain),
         tokensUsed |-> tokenEstimate(PromptChars + Len(JSONstringify(primaryResponse)))]

\* lines 189-212: the analysisResult of a single-model response
singleAnalysis(text, domain) ==
    LET responseText == stripFences(text)
        parsedResponse == ParseJSON(responseText)
        analysis == analyzeResponse(responseText, domain, parsedResponse)
    IN  [response |-> responseText,
         parsedResponse |-> parsedResponse,
         citations |-> analysis.citations,
         mentioned |-> analysis.mentioned,
         tokensUsed |-> tokenEstimate(PreambleChars + PromptChars + Len(responseText))]

\* the entry pushed after a prompt was analysed
successEntry(prompt, ar, analysis) ==
    [promptId |-> prompt.id, parsedResponse |-> ar.parsedResponse,
     domainMentioned |-> analysis.mentioned, score |-> analysis.score,
     citations |-> analysis.citations, confidence |-> analysis.confidence,
     tokensUsed |-> ar.tokensUsed,
     hasError |-> FALSE, error |-> <<>>]

\* the entry pushed by the catch of the prompt loop
errorEntry(prompt, message) ==
    [promptId |-> prompt.id, parsedResponse |-> Null,
     domainMentioned |-> FALSE, score |-> 0,
     citations |-> <<>>, confidence |-> "low",
     tokensUsed |-> 0,
     hasError |-> TRUE, error |-> message]

\* Math.round((a / b) * 100) with truncation instead of rounding
percentageOfFloor(a, b) == IF b = 0 THEN -1 ELSE (100 * a) \div b

\* Math.round((a / b) * 100) for a >= 0, b > 0; -1 stands for NaN
percentageOf(a, b) == IF b = 0 THEN -1 ELSE (200 * a + b) \div (2 * b)

\* the report of a run over n prompts; maxScore is n * 3
makeReport(total, n, premium, tokens) ==
    [totalScore |-> total, maxScore |-> n * 3,
     percentage |-> percentageOf(total, n * 3),
     isPremium |-> premium, promptsUsed |-> n, totalTokens |-> tokens]

\* bounds: the length of the Gemini stub of a free and of a premium run
MaxStub == 3
MaxPremiumStub == 2

RunUrl == HTTPS \o WWW \o DomAB \o <<"/","x">>

GeminiOutcomes ==
    { GErr(Msg503), GErr(Msg429), GErr(Msg404),
      GText(TextFencedCite), GText(JSONstringify(ObjNone)), GText(TextMention),
      GText(JSONstringify(ObjBadCitations)) }

OpenRouterOutcomes ==
    { GErr(Msg429), GText(JSONstringify(ObjCite)), GText(JSONstringify(ObjNone)) }

Stubs(n) == UNION { [1..k -> GeminiOutcomes] : k \in 1..n }

\* an answer to the request for prompts: some words, then a JSON array of ten
\* prompts
GeneratedPrompt == <<"p">>
TextPromptList ==
    <<"x", " ", "[">>
    \o JoinComma([i \in 1..GeneratedPromptCount |-> JsonString(GeneratedPrompt)])
    \o <<"]">>

\* the stubs of a premium run whose first answer has a number for its
\* description
BadDescriptionStubs(n) ==
    {<<GText(JSONstringify(ObjBadDescription))>>} \cup
    {<<GText(JSONstringify(ObjBadDescription))>> \o rest : rest \in Stubs(n - 1)}

\* the stubs whose first answer, the one to the request for prompts, is that
PromptListStubs(n) ==
    {<<GText(TextPromptList)>>} \cup
    {<<GText(TextPromptList)>> \o rest : rest \in Stubs(n - 1)}

InitRun ==
    /\ url = RunUrl
    /\ isPremium \in BOOLEAN
    /\ businessInfo \in (IF isPremium THEN BOOLEAN ELSE {TRUE})
    /\ openrouterKey \in (IF isPremium THEN BOOLEAN ELSE {FALSE})
    /\ geminiStub \in (IF isPremium
                        THEN Stubs(MaxPremiumStub) \cup
                             (IF businessInfo THEN PromptListStubs(MaxPremiumStub)
                              ELSE BadDescriptionStubs(MaxPremiumStub))
                        ELSE Stubs(MaxStub))
    /\ or1Stub \in (IF openrouterKey THEN OpenRouterOutcomes ELSE {GErr(Msg404)})
    /\ or2Stub \in (IF openrouterKey THEN OpenRouterOutcomes ELSE {GErr(Msg404)})
    /\ geminiCalls = 0 /\ orCalls = 0
    /\ pc = "start" /\ promptsToUse = <<>> /\ idx = 0 /\ attempt = 0
    /\ analysisResult = NoResult /\ results = <<>> /\ totalScore = 0
    /\ totalTokens = 0
    /\ report = NoResult /\ promptLog = <<>>
    /\ RequestsIdle /\ AnalyzerIdle /\ MultiIdle /\ WarnIdle /\ OtherKeysSet

\* what the next generateContent call gives
NextOutcome == geminiStub[(geminiCalls % Len(geminiStub)) + 1]

domainOfRun == extractDomain(url)

Event(ev, n, ok) == [ev |-> ev, n |-> n, ok |-> ok]

\* lines 55-80: the prompt set
SelectPrompts ==
    /\ pc = "start"
    /\ IF isPremium /\ businessInfo
       THEN /\ promptsToUse' = customPrompts(NextOutcome)
            /\ geminiCalls' = geminiCalls + 1
       ELSE /\ promptsToUse' = PROMPT_TEMPLATES
            /\ UNCHANGED geminiCalls
    /\ pc' = "loop" /\ idx' = 1
    /\ UNCHANGED <<url, isPremium, businessInfo, geminiStub, or1Stub, or2Stub,
                   orCalls, attempt, analysisResult, results, totalScore,
                   totalTokens, report, promptLog>>
    /\ UNCHANGED <<analyzerVars, multiVars, warnVars, envVars, requestVars, limiterVars, authVars, checkVars>>

\* 1 for a branch whose provider was asked and answered, 0 for another
answered(settled) == IF settled.called /\ settled.error = <<>> THEN 1 ELSE 0

\* lines 94-136: a premium prompt goes to analyzeWithMultipleLLMs
DispatchMulti ==
    /\ pc = "loop" /\ idx <= Len(promptsToUse) /\ isPremium
    /\ LET gemini == catchBranch(analyzeWithGemini(NextOutcome), Branches[1])
           openrouter1 == catchBranch(analyzeWithOpenRouter(or1Stub, domainOfRun, openrouterKey), Branches[2])
           openrouter2 == catchBranch(analyzeWithOpenRouter(or2Stub, domainOfRun, openrouterKey), Branches[3])
           values == << gemini.value, openrouter1.value, openrouter2.value >>
           succeeded == answered(gemini) + answered(openrouter1) + answered(openrouter2)
       IN  /\ mValue' = values
           /\ promptLog' = << Event("multi", succeeded, succeeded > 0) >>
           /\ IF spreadThrows(values)
              THEN /\ analysisResult' = NoResult
                   /\ pc' = "single"
              ELSE /\ analysisResult' = aggregateMulti(values)
                   /\ pc' = "analyzed"
    /\ geminiCalls' = geminiCalls + 1
    /\ orCalls' = orCalls + (IF openrouterKey THEN 2 ELSE 0)
    /\ attempt' = 0
    /\ UNCHANGED <<url, isPremium, businessInfo, geminiStub, or1Stub, or2Stub,
                   promptsToUse, idx, results, totalScore, totalTokens, report>>
    /\ UNCHANGED <<analyzerVars, mBranch, mErrors, mResults, mOutcome, warnVars, envVars, requestVars, limiterVars, authVars, checkVars>>

\* the single-model loop is entered by a free prompt or after a failed
\* multi-LLM analysis
InSingle ==
    \/ pc = "single"
    \/ pc = "loop" /\ idx <= Len(promptsToUse) /\ ~isPremium

LogSoFar == IF pc = "loop" THEN <<>> ELSE promptLog

\* lines 162-166, 189-212: generateContent answers; when analyzeResponse
\* throws on the answer (line 205) the catch of the prompt loop pushes the
\* error entry (lines 251-268)
SingleCallOk ==
    /\ InSingle
    /\ NextOutcome.kind = "text"
    /\ IF analyzeResponseThrows(ParseJSON(stripFences(NextOutcome.text)))
       THEN /\ results' = Append(results, errorEntry(promptsToUse[idx], MsgNotAFunction))
            /\ idx' = idx + 1
            /\ attempt' = 0
            /\ pc' = "loop"
            /\ UNCHANGED analysisResult
       ELSE /\ analysisResult' = singleAnalysis(NextOutcome.text, domainOfRun)
            /\ pc' = "analyzed"
            /\ UNCHANGED <<idx, attempt, results>>
    /\ promptLog' = Append(LogSoFar, Event("call", geminiCalls, TRUE))
    /\ geminiCalls' = geminiCalls + 1
    /\ UNCHANGED <<url, isPremium, businessInfo, geminiStub, or1Stub, or2Stub,
                   orCalls, promptsToUse, totalScore, totalTokens, report>>
    /\ UNCHANGED <<analyzerVars, multiVars, warnVars, envVars, requestVars, limiterVars, authVars, checkVars>>

\* lines 167-178: generateContent fails and the loop sleeps and tries again
SingleCallRetry ==
    /\ InSingle
    /\ NextOutcome.kind = "error"
    /\ shouldRetry(NextOutcome.text, attempt)
    /\ promptLog' = LogSoFar \o << Event("call", geminiCalls, FALSE),
                                   Event("sleep", retryDelay(attempt), TRUE) >>
    /\ geminiCalls' = geminiCalls + 1
    /\ attempt' = attempt + 1
    /\ pc' = "single"
    /\ UNCHANGED <<url, isPremium, businessInfo, geminiStub, or1Stub, or2Stub,
                   orCalls, promptsToUse, idx, analysisResult, results,
                   totalScore, totalTokens, report>>
    /\ UNCHANGED <<analyzerVars, multiVars, warnVars, envVars, requestVars, limiterVars, authVars, checkVars>>

\* a catch of the prompt loop that goes on without an entry
SingleCallFailDropping ==
    /\ InSingle
    /\ NextOutcome.kind = "error"
    /\ ~shouldRetry(NextOutcome.text, attempt)
    /\ promptLog' = Append(LogSoFar, Event("call", geminiCalls, FALSE))
    /\ geminiCalls' = geminiCalls + 1
    /\ attempt' = 0
    /\ idx' = idx + 1
    /\ pc' = "loop"
    /\ UNCHANGED <<url, isPremium, businessInfo, geminiStub, or1Stub, or2Stub,
                   orCalls, promptsToUse, analysisResult, results, totalScore, totalTokens, report>>
    /\ UNCHANGED <<analyzerVars, multiVars, warnVars, envVars, requestVars, limiterVars, authVars, checkVars>>

\* a prompt loop without its catch: the failure rejects the run
SingleCallFailRethrow ==
    /\ InSingle
    /\ NextOutcome.kind = "error"
    /\ ~shouldRetry(NextOutcome.text, attempt)
    /\ promptLog' = Append(LogSoFar, Event("call", geminiCalls, FALSE))
    /\ geminiCalls' = geminiCalls + 1
    /\ pc' = "rejected"
    /\ UNCHANGED <<url, isPremium, businessInfo, geminiStub, or1Stub, or2Stub,
                   orCalls, promptsToUse, idx, attempt, analysisResult, results,
                   totalScore, totalTokens, report>>
    /\ UNCHANGED <<analyzerVars, multiVars, warnVars, envVars, requestVars, limiterVars, authVars, checkVars>>

\* lines 179-182, 251-268: generateContent fails for good; the catch of the
\* prompt loop pushes the error entry
SingleCallFail ==
    /\ InSingle
    /\ NextOutcome.kind = "error"
    /\ ~shouldRetry(NextOutcome.text, attempt)
    /\ results' = Append(results, errorEntry(promptsToUse[idx], NextOutcome.text))
    /\ promptLog' = Append(LogSoFar, Event("call", geminiCalls, FALSE))
    /\ geminiCalls' = geminiCalls + 1
    /\ attempt' = 0
    /\ idx' = idx + 1
    /\ pc' = "loop"
    /\ UNCHANGED <<url, isPremium, businessInfo, geminiStub, or1Stub, or2Stub,
                   orCalls, promptsToUse, analysisResult, totalScore, totalTokens, report>>
    /\ UNCHANGED <<analyzerVars, multiVars, warnVars, envVars, requestVars, limiterVars, authVars, checkVars>>

\* a request for recommendations whenever nothing was cited
wantsRecommendationsUncited(analysis) == Len(analysis.citations) = 0

\* line 221: if (analysis.citations.length === 0 && !analysis.mentioned)
wantsRecommendations(analysis) ==
    Len(analysis.citations) = 0 /\ ~analysis.mentioned

\* lines 215-249: the tokens of an analysed prompt are counted (215), then
\* its entry is made, with the request for recommendations (a
\* generateContent call whose failure getRecommendations swallows) when
\* nothing was cited or mentioned; when analyzeResponse throws (218) the
\* catch of the prompt loop pushes the error entry (lines 251-268)
RecordPrompt ==
    /\ pc = "analyzed"
    /\ totalTokens' = totalTokens + analysisResult.tokensUsed
    /\ IF analyzeResponseThrows(analysisResult.parsedResponse)
       THEN /\ results' = Append(results, errorEntry(promptsToUse[idx], MsgNotAFunction))
            /\ UNCHANGED <<totalScore, geminiCalls, promptLog>>
       ELSE LET analysis == analyzeResponse(analysisResult.response, domainOfRun,
                                            analysisResult.parsedResponse)
            IN  /\ results' = Append(results, successEntry(promptsToUse[idx], analysisResult, analysis))
                /\ totalScore' = totalScore + analysis.score
                /\ IF wantsRecommendations(analysis)
                   THEN /\ geminiCalls' = geminiCalls + 1
                        /\ promptLog' = promptLog \o
                               << Event("rec", geminiCalls, NextOutcome.kind = "text"),
                                  Event("sleep", promptPause, TRUE) >>
                   ELSE /\ UNCHANGED geminiCalls
                        /\ promptLog' = Append(promptLog, Event("sleep", promptPause, TRUE))
    /\ attempt' = 0
    /\ idx' = idx + 1
    /\ pc' = "loop"
    /\ UNCHANGED <<url, isPremium, businessInfo, geminiStub, or1Stub, or2Stub,
                   orCalls, promptsToUse, analysisResult, report>>
    /\ UNCHANGED <<analyzerVars, multiVars, warnVars, envVars, requestVars, limiterVars, authVars, checkVars>>

\* lines 271-289: the report
Aggregate ==
    /\ pc = "loop" /\ idx > Len(promptsToUse)
    /\ report' = makeReport(totalScore, Len(promptsToUse), isPremium, totalTokens)
    /\ pc' = "done"
    /\ UNCHANGED <<url, isPremium, businessInfo, geminiStub, or1Stub, or2Stub,
                   geminiCalls, orCalls, promptsToUse, idx, attempt,
                   analysisResult, results, totalScore, totalTokens, promptLog>>
    /\ UNCHANGED <<analyzerVars, multiVars, warnVars, envVars, requestVars, limiterVars, authVars, checkVars>>

NextRun ==
    \/ SelectPrompts
    \/ DispatchMulti
    \/ SingleCallOk
    \/ SingleCallRetry
    \/ SingleCallFail
    \/ RecordPrompt
    \/ Aggregate

SpecRun == InitRun /\ [][NextRun]_vars

(***************************************************************************)
(* Claims about analyzeLLMVisibility, checked under SpecRun                *)
(***************************************************************************)
\* a prompt has just been recorded: promptLog is the log of that prompt
PromptDone == pc = "loop" /\ Len(results) > 0

LastEntry == results[Len(results)]

EventsOf(kinds) == {i \in DOMAIN promptLog : promptLog[i].ev \in kinds}

\* what the n-th generateContent call of the run (counted from 0) was given
OutcomeAt(n) == geminiStub[(n % Len(geminiStub)) + 1]

Transient(o) == o.kind = "error" /\ o.text = Msg503

AllStubsFail ==
    /\ \A i \in DOMAIN geminiStub : geminiStub[i].kind = "error"
    /\ openrouterKey => (or1Stub.kind = "error" /\ or2Stub.kind = "error")

\* C1 as stated: in single and in multi-provider mode a prompt whose every
\* provider call failed has an entry with score 0 and an error, and when all
\* three default prompts fail the report is 0 of 9, 0 percent.
C1_Original ==
    /\ (PromptDone /\ EventsOf({"call", "multi", "rec"}) # {}
          /\ \A i \in EventsOf({"call", "multi", "rec"}) : ~promptLog[i].ok)
       => (LastEntry.score = 0 /\ LastEntry.hasError /\ LastEntry.error # <<>>)
    /\ (pc = "done" /\ AllStubsFail /\ Len(promptsToUse) = 3)
       => (report.totalScore = 0 /\ report.maxScore = 9 /\ report.percentage = 0)

\* the state C1 fails in: a premium prompt all of whose branches failed has
\* been recorded without an error
C1_Witness ==
    /\ isPremium /\ PromptDone /\ AllStubsFail
    /\ promptLog[1].ev = "multi" /\ ~promptLog[1].ok
    /\ ~LastEntry.hasError

\* the sum of the scores of the entries
RECURSIVE SumScores(_)
SumScores(es) == IF es = <<>> THEN 0 ELSE Head(es).score + SumScores(Tail(es))

C5_Case == pc = "done"

\* C5: every report has maxScore = 3 x the number of prompts, a totalScore
\* between 0 and maxScore, and an integer percentage between 0 and 100 that
\* is totalScore / maxScore x 100 rounded to the nearest integer, halves up.
C5_ReportArithmetic ==
    C5_Case =>
        /\ Len(results) = Len(promptsToUse)
        /\ report.maxScore = 3 * Len(promptsToUse)
        /\ report.totalScore = SumScores(results)
        /\ 0 <= report.totalScore /\ report.totalScore <= report.maxScore
        /\ report.percentage \in 0..100
        /\ -report.maxScore <= 2 * (100 * report.totalScore - report.percentage * report.maxScore)
        /\ 2 * (100 * report.totalScore - report.percentage * report.maxScore) < report.maxScore

\* a report whose percentage had to be rounded up
C5_Witness ==
    /\ C5_Case
    /\ report.percentage * report.maxScore > 100 * report.totalScore

\* a report of a premium run over the generated prompts
C5_WitnessPremium ==
    /\ C5_Case /\ isPremium
    /\ report.maxScore = 3 * GeneratedPromptCount
    /\ report.totalScore > 0

\* the first generateContent call of the recorded prompt
FirstCall == promptLog[1].n

C6_Case ==
    /\ ~isPremium /\ PromptDone
    /\ Transient(OutcomeAt(FirstCall))
    /\ Transient(OutcomeAt(FirstCall + 1))
    /\ OutcomeAt(FirstCall + 2).kind = "text"

SuccessText == stripFences(OutcomeAt(FirstCall + 2).text)

C6_WitnessCited ==
    /\ C6_Case
    /\ LastEntry.score = 3
    /\ EventsOf({"rec"}) = {}

\* the waits the retries take, in milliseconds
BackoffSequence == <<1000, 2000, 4000>>

\* the number of the call at position i among the calls of the prompt
CallNumber(i) == Cardinality({j \in EventsOf({"call"}) : j <= i})

C7_Case == ~isPremium /\ PromptDone

\* C7: a prompt makes at most three analysis calls; a transient failure of
\* the first or second is followed by the wait of that rank in 1s, 2s, 4s and
\* by another call; any other failure, and the failure of the third call, is
\* the last thing the prompt does and leaves an entry with score 0 and the
\* error's message.
C7_RetryPolicy ==
    C7_Case =>
        /\ Cardinality(EventsOf({"call"})) <= 3
        /\ \A i \in EventsOf({"call"}) :
              ~promptLog[i].ok =>
                 IF Transient(OutcomeAt(promptLog[i].n)) /\ CallNumber(i) < 3
                 THEN /\ i + 2 <= Len(promptLog)
                      /\ promptLog[i + 1] = Event("sleep", BackoffSequence[CallNumber(i)], TRUE)
                      /\ promptLog[i + 2].ev = "call"
                 ELSE /\ i = Len(promptLog)
                      /\ LastEntry.score = 0
                      /\ LastEntry.hasError
                      /\ LastEntry.error = OutcomeAt(promptLog[i].n).text
                      /\ LastEntry.error # <<>>

\* three transient failures: the attempts are exhausted
C7_Witness ==
    /\ C7_Case
    /\ Cardinality(EventsOf({"call"})) = 3
    /\ \A i \in EventsOf({"call"}) : ~promptLog[i].ok
    /\ LastEntry.hasError

\* a rate-limited call after one retry ends the prompt
C7_WitnessRateLimited ==
    /\ C7_Case
    /\ Cardinality(EventsOf({"call"})) = 2
    /\ OutcomeAt(promptLog[Len(promptLog)].n) = GErr(Msg429)
    /\ LastEntry.hasError

\* a premium prompt analysed by analyzeWithMultipleLLMs, mValue holding what
\* the three branches returned
C9_Case ==
    /\ isPremium /\ PromptDone
    /\ promptLog[1].ev = "multi"
    /\ EventsOf({"call"}) = {}

\* C9 as stated: the entry's citations are the de-duplicated union of the
\* branches' citations, and its answer is the primary branch's.
C9_Original ==
    C9_Case =>
        /\ LastEntry.citations =
               Unique(CitationsOf(mValue[1]) \o CitationsOf(mValue[2]) \o CitationsOf(mValue[3]))
        /\ mValue[1] # Null => LastEntry.parsedResponse = mValue[1]

\* the state C9 fails in: a secondary branch cited the domain, the primary
\* did not, and the entry has no citation
C9_Witness ==
    /\ C9_Case
    /\ mValue[1] # Null /\ CitationsOf(mValue[1]) = <<>>
    /\ CitationsOf(mValue[2]) # <<>>
    /\ LastEntry.citations = <<>>

(***************************************************************************)
(* multiLLMService.js analyzeWithMultipleLLMs, its three promises settling *)
(* one by one in any order                                                 *)
(***************************************************************************)
MultiDomain == DomAB

OpenRouterMultiOutcomes == OpenRouterOutcomes \cup {GText(<<>>), GText(TextMention)}

Pending == [state |-> "pending"]

InitMulti ==
    /\ openrouterKey \in BOOLEAN
    /\ mOutcome \in [1..3 -> GeminiOutcomes \cup OpenRouterMultiOutcomes]
    /\ mOutcome[1] \in GeminiOutcomes
    /\ mOutcome[2] \in (IF openrouterKey THEN OpenRouterMultiOutcomes ELSE {GErr(Msg404)})
    /\ mOutcome[3] \in (IF openrouterKey THEN OpenRouterMultiOutcomes ELSE {GErr(Msg404)})
    /\ mBranch = [b \in 1..3 |-> Pending]
    /\ mErrors = <<>>
    /\ mResults = NoResult
    /\ mValue = <<>>
    /\ RequestsIdle /\ AnalyzerIdle /\ RunIdle /\ WarnIdle /\ OtherKeysSet

\* what branch b's own promise settles to
branchPromise(b) ==
    IF b = 1 THEN analyzeWithGemini(mOutcome[1])
    ELSE analyzeWithOpenRouter(mOutcome[b], MultiDomain, openrouterKey)

\* lines 28-41: a branch settles and its .catch pushes the error
SettleBranch(b) ==
    /\ mResults = NoResult
    /\ mBranch[b] = Pending
    /\ LET settled == catchBranch(branchPromise(b), Branches[b])
       IN  /\ mBranch' = [mBranch EXCEPT ![b] = settled]
           /\ mErrors' = mErrors \o settled.error
    /\ UNCHANGED <<mValue, mResults, mOutcome>>
    /\ UNCHANGED <<analyzerVars, runVars, warnVars, envVars, requestVars, limiterVars, authVars, checkVars>>

truthyOr(a, b) == IF a # Null THEN a ELSE b

\* lines 43-52: Promise.all settles - it rejects with the first rejection, it
\* fulfils once every promise has - and the results are returned
Join ==
    /\ mResults = NoResult
    /\ \/ \A b \in 1..3 : mBranch[b] # Pending
       \/ \E b \in 1..3 : mBranch[b].state = "rejected"
    /\ IF \E b \in 1..3 : mBranch[b].state = "rejected"
       THEN mResults' = [state |-> "rejected", gemini |-> Null, openrouter1 |-> Null,
                         openrouter2 |-> Null, openrouter |-> Null, errors |-> <<>>]
       ELSE mResults' = [state |-> "returned",
                         gemini |-> mBranch[1].value,
                         openrouter1 |-> mBranch[2].value,
                         openrouter2 |-> mBranch[3].value,
                         openrouter |-> truthyOr(mBranch[2].value, mBranch[3].value),
                         errors |-> mErrors]
    /\ UNCHANGED <<mBranch, mValue, mErrors, mOutcome>>
    /\ UNCHANGED <<analyzerVars, runVars, warnVars, envVars, requestVars, limiterVars, authVars, checkVars>>

NextMulti ==
    \/ \E b \in 1..3 : SettleBranch(b)
    \/ Join

SpecMulti == InitMulti /\ [][NextMulti]_vars

\* the provider of branch b failed its request
BranchFails(b) == mOutcome[b].kind = "error" /\ (b = 1 \/ openrouterKey)

ErrorsNaming(b) == {i \in DOMAIN mResults.errors : mResults.errors[i].provider = Branches[b]}

ResultOf(b) ==
    IF b = 1 THEN mResults.gemini
    ELSE IF b = 2 THEN mResults.openrouter1 ELSE mResults.openrouter2

C8_Case == mResults # NoResult

\* C8: analyzeWithMultipleLLMs returns only when all three branches have
\* settled and never rejects; each failing branch has exactly one entry in
\* results.errors, naming it, and a null result; each other branch has no
\* entry and its own result, which is an answer whenever its provider was
\* asked.
C8_SettleAll ==
    C8_Case =>
        /\ mResults.state = "returned"
        /\ \A b \in 1..3 : mBranch[b] # Pending
        /\ \A b \in 1..3 : mBranch[b].called = (b = 1 \/ openrouterKey)
        /\ \A b \in 1..3 :
              IF BranchFails(b)
              THEN /\ Cardinality(ErrorsNaming(b)) = 1
                   /\ ResultOf(b) = Null
              ELSE /\ ErrorsNaming(b) = {}
                   /\ ResultOf(b) = branchPromise(b).value
                   /\ (b = 1 \/ openrouterKey) => ResultOf(b) # Null
        /\ Len(mResults.errors) = Cardinality({b \in 1..3 : BranchFails(b)})

\* two branches failed, the later one first, and the third one's answer is
\* returned
C8_Witness ==
    /\ C8_Case
    /\ BranchFails(1) /\ BranchFails(3) /\ ~BranchFails(2)
    /\ mResults.openrouter1 # Null
    /\ Len(mResults.errors) = 2
    /\ mResults.errors[1].provider = Branches[3]

(***************************************************************************)
(* modelHealthCheckService.js: the registry, the cache and isModelHealthy  *)
(***************************************************************************)
\* Object.keys(MODELS), in the order of the registry
ModelKeys ==
    << "gemini",
       "geminiExp",
       "huggingfaceQwen",
       "huggingfaceGemma",
       "huggingfaceLlama",
       "huggingfaceMistral7B",
       "huggingfaceMixtral",
       "huggingfaceLayoutLM",
       "huggingfaceDistilBERT",
       "huggingfaceBGE",
       "huggingfaceFlanT5",
       "openrouterDeepSeek",
       "openrouterMistral",
       "openrouterQwenCoder",
       "openrouterDeepSeekChimera",
       "openrouterSherlockDash",
       "openrouterSherlockThink",
       "openrouterKatCoder" >>

\* MODELS[key]
ModelConfig(key) ==
    CASE key = "gemini" -> [name |-> "gemini-2.5-flash", provider |-> "google", deprecated |-> FALSE]
      [] key = "geminiExp" -> [name |-> "google/gemini-2.0-flash-exp:free", provider |-> "openrouter", deprecated |-> TRUE]
      [] key = "huggingfaceQwen" -> [name |-> "Qwen/Qwen2.5-7B-Instruct", provider |-> "huggingface", deprecated |-> TRUE]
      [] key = "huggingfaceGemma" -> [name |-> "google/gemma-2-9b-it", provider |-> "huggingface", deprecated |-> TRUE]
      [] key = "huggingfaceLlama" -> [name |-> "meta-llama/Llama-3.1-8B-Instruct", provider |-> "huggingface", deprecated |-> TRUE]
      [] key = "huggingfaceMistral7B" -> [name |-> "mistralai/Mistral-7B-Instruct-v0.3", provider |-> "huggingface", deprecated |-> TRUE]
      [] key = "huggingfaceMixtral" -> [name |-> "mistralai/Mixtral-8x7B-Instruct-v0.1", provider |-> "huggingface", deprecated |-> TRUE]
      [] key = "huggingfaceLayoutLM" -> [name |-> "microsoft/layoutlmv3-base", provider |-> "huggingface", deprecated |-> TRUE]
      [] key = "huggingfaceDistilBERT" -> [name |-> "distilbert/distilbert-base-uncased", provider |-> "huggingface", deprecated |-> TRUE]
      [] key = "huggingfaceBGE" -> [name |-> "BAAI/bge-large-en-v1.5", provider |-> "huggingface", deprecated |-> FALSE]
      [] key = "huggingfaceFlanT5" -> [name |-> "google/flan-t5-base", provider |-> "huggingface", deprecated |-> TRUE]
      [] key = "openrouterDeepSeek" -> [name |-> "deepseek/deepseek-r1:free", provider |-> "openrouter", deprecated |-> TRUE]
      [] key = "openrouterMistral" -> [name |-> "mistralai/mistral-7b-instruct:free", provider |-> "openrouter", deprecated |-> FALSE]
      [] key = "openrouterQwenCoder" -> [name |-> "qwen/qwen3-coder:free", provider |-> "openrouter", deprecated |-> TRUE]
      [] key = "openrouterDeepSeekChimera" -> [name |-> "tngtech/deepseek-r1t2-chimera:free", provider |-> "openrouter", deprecated |-> FALSE]
      [] key = "openrouterSherlockDash" -> [name |-> "openrouter/sherlock-dash-alpha", provider |-> "openrouter", deprecated |-> FALSE]
      [] key = "openrouterSherlockThink" -> [name |-> "openrouter/sherlock-think-alpha", provider |-> "openrouter", deprecated |-> FALSE]
      [] key = "openrouterKatCoder" -> [name |-> "kwaipilot/kat-coder-pro:free", provider |-> "openrouter", deprecated |-> FALSE]

MODELS == [key \in {ModelKeys[i] : i \in DOMAIN ModelKeys} |-> ModelConfig(key)]

\* toLowerCase of the model names and keys, which are atoms here
lowerCaseOf(name) ==
    CASE name = "Qwen/Qwen2.5-7B-Instruct" -> "qwen/qwen2.5-7b-instruct"
      [] name = "meta-llama/Llama-3.1-8B-Instruct" -> "meta-llama/llama-3.1-8b-instruct"
      [] name = "mistralai/Mistral-7B-Instruct-v0.3" -> "mistralai/mistral-7b-instruct-v0.3"
      [] name = "mistralai/Mixtral-8x7B-Instruct-v0.1" -> "mistralai/mixtral-8x7b-instruct-v0.1"
      [] name = "BAAI/bge-large-en-v1.5" -> "baai/bge-large-en-v1.5"
      [] name = "geminiExp" -> "geminiexp"
      [] name = "huggingfaceQwen" -> "huggingfaceqwen"
      [] name = "huggingfaceGemma" -> "huggingfacegemma"
      [] name = "huggingfaceLlama" -> "huggingfacellama"
      [] name = "huggingfaceMistral7B" -> "huggingfacemistral7b"
      [] name = "huggingfaceMixtral" -> "huggingfacemixtral"
      [] name = "huggingfaceLayoutLM" -> "huggingfacelayoutlm"
      [] name = "huggingfaceDistilBERT" -> "huggingfacedistilbert"
      [] name = "huggingfaceBGE" -> "huggingfacebge"
      [] name = "huggingfaceFlanT5" -> "huggingfaceflant5"
      [] name = "openrouterDeepSeek" -> "openrouterdeepseek"
      [] name = "openrouterMistral" -> "openroutermistral"
      [] name = "openrouterQwenCoder" -> "openrouterqwencoder"
      [] name = "openrouterDeepSeekChimera" -> "openrouterdeepseekchimera"
      [] name = "openrouterSherlockDash" -> "openroutersherlockdash"
      [] name = "openrouterSherlockThink" -> "openroutersherlockthink"
      [] name = "openrouterKatCoder" -> "openrouterkatcoder"
      [] OTHER -> name

\* a.includes(b) for lower-cased names a of the registry and lower-cased
\* names and keys b: no name of the registry contains another name or a key,
\* but the two Gemini names contain the key "gemini"
nameIncludes(a, b) ==
    \/ a = b
    \/ b = "gemini" /\ a \in {"gemini-2.5-flash", "google/gemini-2.0-flash-exp:free"}

\* the entries a model gets in the result of checkAllModels
KeyNotConfigured ==
    [healthy |-> FALSE, error |-> "API key not configured", isRateLimit |-> FALSE, deprecated |-> FALSE]
ModelDeprecated ==
    [healthy |-> FALSE, error |-> "Model deprecated", isRateLimit |-> FALSE, deprecated |-> TRUE]

\* what a probe returns: the model answered, or the request failed with a
\* rate limit (429) or with another error
probeResult(outcome) ==
    IF outcome = "ok"
    THEN [healthy |-> TRUE, error |-> "none", isRateLimit |-> FALSE, deprecated |-> FALSE]
    ELSE [healthy |-> FALSE, error |-> outcome, isRateLimit |-> outcome = "429", deprecated |-> FALSE]

keyOf(provider) ==
    IF provider = "google" THEN geminiKey
    ELSE IF provider = "huggingface" THEN huggingfaceKey
    ELSE openrouterKey

\* the models checkAllModels probes: not deprecated, and their key is set
Probed == {key \in DOMAIN MODELS : ~MODELS[key].deprecated /\ keyOf(MODELS[key].provider)}

ProbeOutcomes(key) ==
    IF MODELS[key].provider = "openrouter" THEN {"ok", "429"} ELSE {"ok", "500"}

\* the order the results are written in
ResultOrderWithKey ==
    << "gemini", "huggingfaceQwen", "huggingfaceGemma", "huggingfaceLlama",
       "huggingfaceMistral7B", "huggingfaceMixtral", "huggingfaceLayoutLM",
       "huggingfaceDistilBERT", "huggingfaceBGE", "huggingfaceFlanT5",
       "geminiExp", "openrouterDeepSeek", "openrouterQwenCoder", "openrouterMistral",
       "openrouterDeepSeekChimera", "openrouterSherlockDash",
       "openrouterSherlockThink", "openrouterKatCoder" >>
ResultOrderWithoutKey ==
    << "gemini", "huggingfaceQwen", "huggingfaceGemma", "huggingfaceLlama",
       "huggingfaceMistral7B", "huggingfaceMixtral", "huggingfaceLayoutLM",
       "huggingfaceDistilBERT", "huggingfaceBGE", "huggingfaceFlanT5",
       "geminiExp", "openrouterDeepSeek", "openrouterMistral", "openrouterQwenCoder",
       "openrouterDeepSeekChimera", "openrouterSherlockDash",
       "openrouterSherlockThink", "openrouterKatCoder" >>

\* results that hold the probed models only
checkResultsProbedOnly(outcomes) ==
    [key \in Probed |-> probeResult(outcomes[key])]

\* the results of checkAllModels when the probes give these outcomes
checkResults(outcomes) ==
    [key \in DOMAIN MODELS |->
        IF ~keyOf(MODELS[key].provider) THEN KeyNotConfigured
        ELSE IF MODELS[key].deprecated THEN ModelDeprecated
        ELSE probeResult(outcomes[key])]

\* bound: the number of health checks
MaxChecks == 1

\* the probes of one checkAllModels, in the order they are sent
probesSent ==
    SelectSeq(ResultOrderWithKey, LAMBDA key : key \in Probed)

\* checkAllModels: the probes, then the replacement of the cache and the
\* return of the results
CheckAllModels ==
    /\ wPc = "idle"
    /\ healthStatus.lastChecked < MaxChecks
    /\ \E answering \in SUBSET Probed :
        LET outcomes == [key \in Probed |->
                           IF key \in answering THEN "ok"
                           ELSE CHOOSE o \in ProbeOutcomes(key) : o # "ok"]
            results_ == checkResults(outcomes)
        IN
          /\ healthStatus' =
                [lastChecked |-> healthStatus.lastChecked + 1,
                 order |-> IF openrouterKey THEN ResultOrderWithKey ELSE ResultOrderWithoutKey,
                 models |-> results_]
          /\ hReturn' = [state |-> "returned", results |-> results_]
    /\ probeLog' = probeLog \o probesSent
    /\ UNCHANGED <<wPc, wSelected, wIdx, wAttempt, wRequests, wHealthAt, wReturn, hQuery>>
    /\ UNCHANGED <<analyzerVars, runVars, multiVars, envVars, requestVars, limiterVars, authVars, checkVars>>
    /\ UNCHANGED <<warning, wLast>>

modelNameMap ==
    [name \in {"mistralai/mistral-7b-instruct:free", "openrouter/sherlock-dash-alpha",
               "openrouter/sherlock-think-alpha", "kwaipilot/kat-coder-pro:free",
               "tngtech/deepseek-r1t2-chimera:free"} |->
        CASE name = "mistralai/mistral-7b-instruct:free" -> "openrouterMistral"
          [] name = "openrouter/sherlock-dash-alpha" -> "openrouterSherlockDash"
          [] name = "openrouter/sherlock-think-alpha" -> "openrouterSherlockThink"
          [] name = "kwaipilot/kat-coder-pro:free" -> "openrouterKatCoder"
          [] name = "tngtech/deepseek-r1t2-chimera:free" -> "openrouterDeepSeekChimera"]

\* the first index at which a sequence of flags holds TRUE, 0 when none does
FirstTrue(flags) ==
    IF \E i \in DOMAIN flags : flags[i]
    THEN CHOOSE i \in DOMAIN flags : flags[i] /\ \A j \in 1..(i - 1) : ~flags[j]
    ELSE 0

\* isModelHealthy that knows the keys of the cache only
isModelHealthyByKey(modelName) ==
    IF modelName \in DOMAIN healthStatus.models
    THEN healthStatus.models[modelName].healthy
    ELSE TRUE

isModelHealthy(modelName) ==
    LET cached == healthStatus.models
        byName(i) == /\ lowerCaseOf(MODELS[ModelKeys[i]].name) = lowerCaseOf(modelName)
                     /\ ModelKeys[i] \in DOMAIN cached
        partial(i) == LET name == healthStatus.order[i]
                      IN  /\ name \in DOMAIN MODELS
                          /\ \/ nameIncludes(lowerCaseOf(MODELS[name].name), lowerCaseOf(modelName))
                             \/ nameIncludes(lowerCaseOf(modelName), lowerCaseOf(MODELS[name].name))
        k3 == FirstTrue([i \in DOMAIN ModelKeys |-> byName(i)])
        k4 == FirstTrue([i \in DOMAIN healthStatus.order |-> partial(i)])
    IN  IF modelName \in DOMAIN cached THEN cached[modelName].healthy
        ELSE IF modelName \in DOMAIN modelNameMap /\ modelNameMap[modelName] \in DOMAIN cached
        THEN cached[modelNameMap[modelName]].healthy
        ELSE IF k3 # 0 THEN cached[ModelKeys[k3]].healthy
        ELSE IF k4 # 0 THEN cached[healthStatus.order[k4]].healthy
        ELSE TRUE

(***************************************************************************)
(* warningRecommendationService.js generateWarningRecommendation           *)
(***************************************************************************)
MODEL_PRIORITY ==
    << "openrouter/sherlock-dash-alpha",
       "mistralai/mistral-7b-instruct:free",
       "openrouter/sherlock-think-alpha",
       "kwaipilot/kat-coder-pro:free",
       "tngtech/deepseek-r1t2-chimera:free" >>

\* tryModelRequest's maxRetries and the base of its waits
tryMaxRetries == 2
rateLimitDelay == 2000

\* what a request to OpenRouter gives: an answer that is JSON, an answer that
\* is not, a rate limit, another error
RequestOutcomes == {"json", "text", "429", "500"}

is429(outcome) == outcome = "429"

\* the route hands over req.body.warning whenever it is truthy
WarningInputs == {"string", "number"}

\* getFallbackRecommendation starts with warning.toLowerCase(), which throws
\* a TypeError for a warning that is no string
getFallbackRecommendation(w) == IF w = "string" THEN "fallback" ELSE "TypeError"

InitWarn ==
    /\ openrouterKey \in BOOLEAN
    /\ geminiKey \in BOOLEAN
    /\ huggingfaceKey \in BOOLEAN
    /\ WarnNotCalled
    /\ warning \in WarningInputs
    /\ RequestsIdle /\ AnalyzerIdle /\ RunIdle /\ MultiIdle

\* lines 36-57: the key, then the selection of a healthy model; the request
\* loop of line 77 starts at the head of MODEL_PRIORITY whatever was selected
WarnStart ==
    /\ wPc = "idle"
    /\ IF ~openrouterKey
       THEN /\ IF getFallbackRecommendation(warning) = "TypeError"
               THEN wPc' = "rejected" /\ UNCHANGED wReturn
               ELSE wPc' = "done" /\ wReturn' = getFallbackRecommendation(warning)
            /\ UNCHANGED <<wSelected, wIdx, wHealthAt>>
       ELSE LET healthy == [i \in DOMAIN MODEL_PRIORITY |-> isModelHealthy(MODEL_PRIORITY[i])]
                first == FirstTrue(healthy)
                selected == IF first # 0 THEN MODEL_PRIORITY[first] ELSE MODEL_PRIORITY[1]
            IN  /\ wHealthAt' = healthy
                /\ wSelected' = selected
                /\ wIdx' = 1
                /\ wPc' = "request"
                /\ UNCHANGED wReturn
    /\ UNCHANGED <<healthStatus, wAttempt, wRequests, healthLog>>
    /\ UNCHANGED <<analyzerVars, runVars, multiVars, envVars, requestVars, limiterVars, authVars, checkVars>>
    /\ UNCHANGED <<warning, wLast>>

\* lines 77-120, 126-172: one axios.post of tryModelRequest and what the two
\* loops do with its outcome
WarnRequest ==
    /\ wPc = "request"
    /\ \E outcome \in RequestOutcomes :
          /\ wLast' = outcome
          /\ LET sent == Append(wRequests, [ev |-> "request", model |-> MODEL_PRIORITY[wIdx], n |-> wAttempt])
                 fallback == getFallbackRecommendation(warning)
                 \* the catch of line 101 takes what the try block throws:
                 \* the request's error, or the TypeError of the fallback
                 thrown == IF outcome = "text" THEN "TypeError" ELSE outcome
             IN  IF outcome = "json"
                 THEN /\ wReturn' = MODEL_PRIORITY[wIdx]
                      /\ wPc' = "done"
                      /\ wRequests' = sent
                      /\ UNCHANGED <<wIdx, wAttempt>>
                 ELSE IF outcome = "text" /\ fallback # "TypeError"
                 THEN /\ wReturn' = fallback
                      /\ wPc' = "done"
                      /\ wRequests' = sent
                      /\ UNCHANGED <<wIdx, wAttempt>>
                 ELSE IF is429(thrown) /\ wAttempt < tryMaxRetries - 1
                 THEN /\ wRequests' = Append(sent, [ev |-> "sleep", model |-> MODEL_PRIORITY[wIdx],
                                                    n |-> rateLimitDelay * 2^wAttempt])
                      /\ wAttempt' = wAttempt + 1
                      /\ UNCHANGED <<wIdx, wPc, wReturn>>
                 ELSE IF wIdx < Len(MODEL_PRIORITY)
                 THEN /\ wIdx' = wIdx + 1
                      /\ wAttempt' = 0
                      /\ wRequests' = sent
                      /\ UNCHANGED <<wPc, wReturn>>
                 ELSE /\ IF fallback = "TypeError"
                         THEN wPc' = "rejected" /\ UNCHANGED wReturn
                         ELSE wPc' = "done" /\ wReturn' = fallback
                      /\ wRequests' = sent
                      /\ UNCHANGED <<wIdx, wAttempt>>
    /\ UNCHANGED <<healthStatus, wSelected, wHealthAt, healthLog>>
    /\ UNCHANGED <<analyzerVars, runVars, multiVars, envVars, requestVars, limiterVars, authVars, checkVars>>
    /\ UNCHANGED warning

NextWarn ==
    \/ CheckAllModels
    \/ WarnStart
    \/ WarnRequest

SpecWarn == InitWarn /\ [][NextWarn]_vars

\* the positions in MODEL_PRIORITY of the requests sent so far
RequestedAt ==
    { i \in DOMAIN MODEL_PRIORITY :
        \E r \in DOMAIN wRequests :
            wRequests[r].ev = "request" /\ wRequests[r].model = MODEL_PRIORITY[i] }

SomeHealthy == \E i \in DOMAIN wHealthAt : wHealthAt[i]

\* C10 as stated: while some model of MODEL_PRIORITY is reported healthy no
\* request goes to a model reported unhealthy, and when none is, only the
\* first model is tried.
C10_Original ==
    wPc \in {"request", "done"} /\ openrouterKey =>
        /\ SomeHealthy => \A i \in RequestedAt : wHealthAt[i]
        /\ ~SomeHealthy => RequestedAt \subseteq {1}

\* the state C10 fails in: the first model is reported unhealthy, the second
\* healthy and selected, and the request went to the first
C10_Witness ==
    /\ openrouterKey
    /\ wPc \in {"request", "done"}
    /\ healthStatus.lastChecked > 0
    /\ ~wHealthAt[1] /\ wHealthAt[2]
    /\ wSelected = MODEL_PRIORITY[2]
    /\ Len(wRequests) > 0
    /\ wRequests[1].model = MODEL_PRIORITY[1]

(***************************************************************************)
(* The health monitor on its own: checkAllModels and isModelHealthy called *)
(* with the keys and the names of the registry                             *)
(***************************************************************************)
HealthInputs ==
    {ModelKeys[i] : i \in DOMAIN ModelKeys} \cup {MODELS[ModelKeys[i]].name : i \in DOMAIN ModelKeys}

InitHealth ==
    /\ openrouterKey \in BOOLEAN
    /\ geminiKey \in BOOLEAN
    /\ huggingfaceKey \in BOOLEAN
    /\ WarnIdle
    /\ RequestsIdle /\ AnalyzerIdle /\ RunIdle /\ MultiIdle

\* a caller asks isModelHealthy(modelName)
IsModelHealthyCall ==
    /\ \E modelName \in HealthInputs :
          hQuery' = [model |-> modelName, answer |-> isModelHealthy(modelName),
                     at |-> healthStatus.lastChecked]
    /\ UNCHANGED <<healthStatus, wPc, wSelected, wIdx, wAttempt, wRequests,
                   wHealthAt, wReturn, probeLog, hReturn>>
    /\ UNCHANGED <<analyzerVars, runVars, multiVars, envVars, requestVars, limiterVars, authVars, checkVars>>
    /\ UNCHANGED <<warning, wLast>>

NextHealth ==
    \/ CheckAllModels
    \/ IsModelHealthyCall

SpecHealth == InitHealth /\ [][NextHealth]_vars

\* the key of the registry model a key or a full name denotes
Denoted(m) ==
    CHOOSE key \in DOMAIN MODELS : key = m \/ MODELS[key].name = m

DeprecatedKeys == {key \in DOMAIN MODELS : MODELS[key].deprecated}

\* C11 as stated: no probe is ever sent for a deprecated model, and the
\* result of checkAllModels, the cache and isModelHealthy all report it
\* unhealthy, in every state, the ones before the first check included.
C11_Original ==
    /\ \A i \in DOMAIN probeLog : probeLog[i] \notin DeprecatedKeys
    /\ hReturn # NoResult =>
          \A key \in DeprecatedKeys : ~hReturn.results[key].healthy
    /\ \A key \in DeprecatedKeys \cap DOMAIN healthStatus.models :
          ~healthStatus.models[key].healthy
    /\ (hQuery # NoResult /\ Denoted(hQuery.model) \in DeprecatedKeys) => ~hQuery.answer

\* the state C11 fails in: before the first check isModelHealthy answers
\* true for a deprecated model
C11_Witness ==
    /\ hQuery # NoResult
    /\ hQuery.at = 0 /\ healthStatus.lastChecked = 0
    /\ hQuery.model = "geminiExp"
    /\ hQuery.answer

C12_Case == hQuery # NoResult /\ hQuery.at = healthStatus.lastChecked

\* C12: asked for a key or a full name of the registry, isModelHealthy
\* answers the cached healthy flag of the model so denoted when the cache has
\* an entry for it, and true when it has none, as while the cache is empty.
C12_Resolution ==
    C12_Case =>
        LET key == Denoted(hQuery.model)
        IN  /\ key \in DOMAIN healthStatus.models
                  => hQuery.answer = healthStatus.models[key].healthy
            /\ key \notin DOMAIN healthStatus.models => hQuery.answer = TRUE
            /\ healthStatus.lastChecked = 0 => hQuery.answer = TRUE

\* a full name that modelNameMap does not know, resolved to its unhealthy entry
C12_Witness ==
    /\ C12_Case
    /\ healthStatus.lastChecked > 0
    /\ hQuery.model = "gemini-2.5-flash"
    /\ ~healthStatus.models["gemini"].healthy
    /\ ~hQuery.answer

\* a name of modelNameMap resolved to its healthy entry
C12_WitnessMapped ==
    /\ C12_Case
    /\ healthStatus.lastChecked > 0
    /\ hQuery.model = "openrouter/sherlock-dash-alpha"
    /\ hQuery.answer

\* C13: checkAllModels returns for every combination of keys and probe
\* outcomes; what it returns has one entry for every model of the registry,
\* an entry is healthy without an error or unhealthy with one, a model that
\* was not probed is unhealthy, and on return the cache is the returned map
\* and lastChecked is set.
C13_ReturnsAll ==
    hReturn # NoResult =>
        /\ hReturn.state = "returned"
        /\ DOMAIN hReturn.results = DOMAIN MODELS
        /\ \A key \in DOMAIN MODELS :
              /\ hReturn.results[key].healthy <=> hReturn.results[key].error = "none"
              /\ key \notin Probed => ~hReturn.results[key].healthy
        /\ healthStatus.models = hReturn.results
        /\ healthStatus.lastChecked > 0

\* a failed probe, a rate-limited probe, a healthy model and an absent key
C13_Witness ==
    /\ hReturn # NoResult
    /\ geminiKey /\ openrouterKey /\ ~huggingfaceKey
    /\ hReturn.results["gemini"].error = "500"
    /\ hReturn.results["openrouterMistral"].isRateLimit
    /\ hReturn.results["openrouterKatCoder"].healthy
    /\ hReturn.results["huggingfaceBGE"].error = "API key not configured"

\* C14: the prompt in work is the one after the prompts already recorded, the
\* i-th entry of the details is the entry of the i-th selected prompt, and a
\* finished run has one entry for every selected prompt.
C14_InOrder ==
    /\ Len(results) <= Len(promptsToUse)
    /\ \A i \in 1..Len(results) : results[i].promptId = promptsToUse[i].id
    /\ pc \in {"loop", "single", "analyzed"} => Len(results) = idx - 1
    /\ pc \in {"single", "analyzed"} => idx <= Len(promptsToUse)
    /\ pc = "done" => Len(results) = Len(promptsToUse)

\* a finished run whose second prompt failed between two that succeeded
C14_Witness ==
    /\ pc = "done"
    /\ Len(results) = 3
    /\ ~results[1].hasError /\ results[2].hasError /\ ~results[3].hasError

\* a finished premium run of generated prompts
C14_WitnessPremium ==
    /\ pc = "done"
    /\ isPremium /\ businessInfo
    /\ Len(results) = GeneratedPromptCount

\* ---------------------------------------------------------------------
\* analyzeLLMVisibility when every awaited call and every timer comes back:
\* a step of the run that can be taken is taken.  Every step of NextRun moves
\* the position of the run, and NextRun can take a step exactly at the
\* positions of CanStep (before the prompts are selected, in the prompt loop
\* and its retry loop, and with an analysed prompt to record), so the
\* fairness of NextRun is written on the position.
runPosition == <<pc, idx, attempt>>

CanStep == pc \in {"start", "loop", "single", "analyzed"}

RunStep ==
    /\ CanStep
    /\ pc' \in {"start", "loop", "single", "analyzed", "done"}
    /\ idx' \in 0..(GeneratedPromptCount + 1)
    /\ attempt' \in 0..maxRetries

SpecRunLive == SpecRun /\ WF_runPosition(RunStep)

\* the phase the run is in: 1 SELECT_PROMPTS, 2 DISPATCH_PROMPTS, 3 AGGREGATE
\* done and the report returned
PhaseOf(p) ==
    IF p = "start" THEN 1
    ELSE IF p \in {"loop", "single", "analyzed"} THEN 2
    ELSE IF p = "done" THEN 3
    ELSE 0

Returned == pc = "done" /\ report # NoResult

\* C15: whatever the providers answer, the run goes from the selection of the
\* prompts to their dispatch to the report, never to an earlier phase, the
\* prompts are selected once and the report is made once, and the run
\* returns a report in the end.
C15_Terminates ==
    /\ [][/\ runPosition' # runPosition
          /\ PhaseOf(pc') >= PhaseOf(pc)
          /\ PhaseOf(pc) # 0 /\ PhaseOf(pc') # 0
          /\ promptsToUse' # promptsToUse => pc = "start"
          /\ report' # report => (pc = "loop" /\ pc' = "done")
          /\ Returned => Returned']_vars
    /\ <>Returned

\* a free run returned although every call of every prompt failed after retries
C15_Witness ==
    /\ Returned
    /\ ~isPremium
    /\ \A i \in DOMAIN geminiStub : Transient(geminiStub[i])
    /\ \A i \in 1..Len(results) : results[i].hasError
    /\ Len(results) = 3

\* the answer to the request for prompts holds ten prompts
GenerationSucceeds == geminiStub[1] = GText(TextPromptList)

Tagged(prompts) ==
    [i \in 1..Len(prompts) |->
        [id |-> <<"custom-", i>>, template |-> prompts[i], category |-> "custom"]]

\* C16: the selection of the prompts ends in the prompt loop for every answer
\* of the provider; a free run has the 3 built-in prompts; a premium run with
\* business information has 10 prompts of category custom, the generated ones
\* when the answer holds ten prompts and the default ones of
\* getDefaultPrompts when it does not or when the call fails.
C16_Selection ==
    /\ pc \in {"start", "loop", "single", "analyzed", "done"}
    /\ pc # "start" =>
          /\ ~isPremium => promptsToUse = PROMPT_TEMPLATES
          /\ (isPremium /\ businessInfo) =>
                /\ Len(promptsToUse) = GeneratedPromptCount
                /\ \A i \in 1..Len(promptsToUse) : promptsToUse[i].category = "custom"
                /\ promptsToUse =
                      IF GenerationSucceeds
                      THEN Tagged([i \in 1..GeneratedPromptCount |-> GeneratedPrompt])
                      ELSE Tagged(getDefaultPrompts)

\* a premium run that went on to its report with the default prompts after
\* the request for prompts failed
C16_Witness ==
    /\ pc = "done"
    /\ isPremium /\ businessInfo
    /\ geminiStub[1].kind = "error"
    /\ promptsToUse[GeneratedPromptCount].template = <<"default", GeneratedPromptCount>>
    /\ report.maxScore = 3 * GeneratedPromptCount

\* a premium run with generated prompts
C16_WitnessGenerated ==
    /\ pc = "done"
    /\ isPremium /\ businessInfo /\ GenerationSucceeds
    /\ promptsToUse[GeneratedPromptCount].template = GeneratedPrompt

\* a premium run whose request for prompts was answered with something else
C16_WitnessMalformed ==
    /\ pc = "loop"
    /\ isPremium /\ businessInfo
    /\ geminiStub[1] = GText(TextFencedCite)
    /\ promptsToUse[1].template = <<"default", 1>>

\* ---------------------------------------------------------------------
\* the providers with and without their API keys: a health check and an
\* analysis with multiple LLMs, side by side

\* what generateContent fails with when GEMINI_API_KEY is not set
MsgApiKey == <<"A","P","I"," ","k","e","y"," ","n","o","t"," ","v","a","l","i","d">>

InitKeys ==
    /\ openrouterKey \in BOOLEAN /\ geminiKey \in BOOLEAN /\ huggingfaceKey \in BOOLEAN
    /\ mOutcome \in [1..3 -> {GErr(MsgApiKey), GErr(Msg503), GErr(Msg429), GErr(Msg404),
                              GText(TextMention), GText(JSONstringify(ObjNone))}]
    /\ mOutcome[1] \in (IF geminiKey THEN {GErr(Msg503), GText(TextMention)}
                        ELSE {GErr(MsgApiKey)})
    /\ mOutcome[2] \in (IF openrouterKey THEN {GErr(Msg429), GText(JSONstringify(ObjNone))}
                        ELSE {GErr(Msg404)})
    /\ mOutcome[3] \in (IF openrouterKey THEN {GErr(Msg429), GText(JSONstringify(ObjNone))}
                        ELSE {GErr(Msg404)})
    /\ mBranch = [b \in 1..3 |-> Pending]
    /\ mErrors = <<>>
    /\ mResults = NoResult
    /\ mValue = <<>>
    /\ RequestsIdle /\ AnalyzerIdle /\ RunIdle /\ WarnIdle

NextKeys ==
    \/ CheckAllModels
    \/ \E b \in 1..3 : SettleBranch(b)
    \/ Join

SpecKeys == InitKeys /\ [][NextKeys]_vars

\* the key of the provider of branch b is set
BranchKey(b) == IF b = 1 THEN geminiKey ELSE openrouterKey

\* the health check of the models of providers without a key
HealthWithoutKey ==
    hReturn # NoResult =>
        \A key \in DOMAIN MODELS :
            ~keyOf(MODELS[key].provider) =>
                /\ ~hReturn.results[key].healthy
                /\ hReturn.results[key].error = "API key not configured"
                /\ \A i \in DOMAIN probeLog : probeLog[i] # key

RECURSIVE SumTokens(_)
SumTokens(es) == IF es = <<>> THEN 0 ELSE Head(es).tokensUsed + SumTokens(Tail(es))

ScoresOf(es) == [i \in 1..Len(es) |-> es[i].score]

\* C18 as stated: the totalScore of a report is the sum of the scores of its
\* entries, three prompts scoring 2, 2 and 3 give 7 of 9 and 78 percent, and
\* the totalTokens of the report is the sum of the tokensUsed of the entries.
C18_Original ==
    pc = "done" =>
        /\ report.totalScore = SumScores(results)
        /\ ScoresOf(results) = <<2, 2, 3>> =>
              (report.totalScore = 7 /\ report.maxScore = 9 /\ report.percentage = 78)
        /\ report.totalTokens = SumTokens(results)

\* a premium run in which the answer of a prompt had a number for its
\* description: the prompt's tokens are in the total, its entry says 0
C18_Witness ==
    /\ pc = "done"
    /\ isPremium
    /\ results[1].hasError /\ results[1].error = MsgNotAFunction
    /\ results[1].tokensUsed = 0
    /\ report.totalTokens > SumTokens(results)

(***************************************************************************)
(* POST /api/analyze: usage limits.  Every request runs the handler from   *)
(* optionalAuth to its response; the handlers of several requests          *)
(* interleave at each await.  analysisRateLimiter lets 20 requests an hour *)
(* through per user or visitor, more than the requests modelled here.      *)
(***************************************************************************)

\* the number of requests a signed-up user sends
MaxRequests == 4
\* the number of requests sent without a token
MaxAnonRequests == 2

\* a User document as the schema creates it: tier free, no scan recorded
NewUser ==
    [tier |-> "free", isPremium |-> FALSE,
     attemptsUsed |-> 0, monthlyScansUsed |-> 0, scans |-> {}]

getTierLimit(user) ==
    IF user = NoResult THEN 3
    ELSE IF user.isPremium /\ user.tier = "free" THEN 200
    ELSE CASE user.tier = "starter" -> 50
           [] user.tier = "professional" -> 200
           [] OTHER -> 3

\* checkMonthlyLimit, for a document whose month needs no reset
checkMonthlyLimit(user) ==
    IF user = NoResult
    THEN [allowed |-> TRUE, scansUsed |-> 0, maxScans |-> 0,
          isPremium |-> FALSE, isFreeTier |-> FALSE]
    ELSE LET maxScans == getTierLimit(user)
             isFreeTier == user.tier = "free"
             scansUsed == IF isFreeTier THEN user.attemptsUsed
                          ELSE user.monthlyScansUsed
         IN  [allowed |-> scansUsed < maxScans, scansUsed |-> scansUsed,
              maxScans |-> maxScans,
              isPremium |-> user.isPremium /\ user.tier # "free",
              isFreeTier |-> isFreeTier]

\* the document incrementMonthlyScan saves
incrementMonthlyScan(user) ==
    IF user.tier = "free"
    THEN [user EXCEPT !.attemptsUsed = user.attemptsUsed + 1]
    ELSE [user EXCEPT !.monthlyScansUsed = user.monthlyScansUsed + 1]

\* checkAnonymousScanLimit of request q against the stored records; an
\* absent visitorId or fingerprint is the empty string
checkAnonymousScanLimit(q, stored) ==
    IF q.visitorId # "" /\ \E rec \in stored : rec.visitorId = q.visitorId
    THEN [allowed |-> FALSE, reason |-> "visitor_id"]
    ELSE IF \E rec \in stored : rec.ipHash = q.ip /\ rec.recent
    THEN [allowed |-> FALSE, reason |-> "ip_limit"]
    ELSE IF q.fingerprint # "" /\ \E rec \in stored : rec.fingerprintHash = q.fingerprint
    THEN [allowed |-> FALSE, reason |-> "fingerprint"]
    ELSE [allowed |-> TRUE, reason |-> "none"]

\* the document recordAnonymousScan creates for request r
anonymousScan(r) ==
    [visitorId |-> IF reqs[r].visitorId # "" THEN reqs[r].visitorId
                   ELSE "generated",
     ipHash |-> reqs[r].ip,
     fingerprintHash |-> reqs[r].fingerprint,
     scanId |-> r,
     recent |-> TRUE]

Respond(r, response) ==
    /\ rRes' = [rRes EXCEPT ![r] = response]
    /\ rPc' = [rPc EXCEPT ![r] = "responded"]

\* middleware optionalAuth: req.user = await User.findById(decoded.userId)
optionalAuth(r) ==
    /\ rPc[r] = "received"
    /\ rUser' = [rUser EXCEPT ![r] = IF reqs[r].token THEN dbUser ELSE NoResult]
    /\ rPc' = [rPc EXCEPT ![r] = "limits"]
    /\ UNCHANGED <<dbUser, dbAnonymousScans, dbScans, reqs, rRes>>
    /\ UNCHANGED <<analyzerVars, runVars, multiVars, warnVars, envVars, limiterVars, authVars, checkVars>>

\* if (req.user): checkMonthlyLimit, 403 or the Scan document is created
CheckUser(r) ==
    /\ rPc[r] = "limits" /\ rUser[r] # NoResult
    /\ IF ~checkMonthlyLimit(rUser[r]).allowed
       THEN /\ Respond(r, [status |-> 403, requiresUpgrade |-> TRUE,
                           requiresAuth |-> FALSE, warnings |-> {}])
            /\ UNCHANGED dbScans
       ELSE /\ dbScans' = [dbScans EXCEPT ![r] = "processing"]
            /\ rPc' = [rPc EXCEPT ![r] = "analysis"]
            /\ UNCHANGED rRes
    /\ UNCHANGED <<dbUser, dbAnonymousScans, reqs, rUser>>
    /\ UNCHANGED <<analyzerVars, runVars, multiVars, warnVars, envVars, limiterVars, authVars, checkVars>>

\* else: checkAnonymousScanLimit, 403 or the Scan document is created
CheckAnonymous(r) ==
    /\ rPc[r] = "limits" /\ rUser[r] = NoResult
    /\ LET anonymousCheck == checkAnonymousScanLimit(reqs[r], dbAnonymousScans)
       IN  IF ~anonymousCheck.allowed
           THEN /\ Respond(r, [status |-> 403, requiresUpgrade |-> FALSE,
                               requiresAuth |-> TRUE, warnings |-> {}])
                /\ UNCHANGED dbScans
           ELSE /\ dbScans' = [dbScans EXCEPT ![r] = "processing"]
                /\ rPc' = [rPc EXCEPT ![r] = "analysis"]
                /\ UNCHANGED rRes
    /\ UNCHANGED <<dbUser, dbAnonymousScans, reqs, rUser>>
    /\ UNCHANGED <<analyzerVars, runVars, multiVars, warnVars, envVars, limiterVars, authVars, checkVars>>

\* how a promise given to Promise.allSettled settles
Settled == {"fulfilled", "rejected"}

\* seoError, llmError: the halves of request r that were rejected
seoError(r) == reqs[r].seo = "rejected"
llmError(r) == reqs[r].llm = "rejected"

\* const warnings = []; if (seoError) ...; if (llmError) ...
warningsOf(r) ==
    (IF seoError(r) THEN {"seo"} ELSE {}) \cup (IF llmError(r) THEN {"llm"} ELSE {})

\* Promise.allSettled of analyzeSEO and analyzeLLMVisibility; the handler
\* throws only when both failed, and then the scan is saved as failed
RunAnalyses(r) ==
    /\ rPc[r] = "analysis"
    /\ IF seoError(r) /\ llmError(r)
       THEN /\ dbScans' = [dbScans EXCEPT ![r] = "failed"]
            /\ Respond(r, [status |-> 500, requiresUpgrade |-> FALSE,
                           requiresAuth |-> FALSE, warnings |-> {}])
       ELSE /\ rPc' = [rPc EXCEPT ![r] = "usage"]
            /\ UNCHANGED <<dbScans, rRes>>
    /\ UNCHANGED <<dbUser, dbAnonymousScans, reqs, rUser>>
    /\ UNCHANGED <<analyzerVars, runVars, multiVars, warnVars, envVars, limiterVars, authVars, checkVars>>

\* await incrementMonthlyScan(req.user): the counter of the request's own
\* document is raised and the document saved, which sets the stored field
RecordUser(r) ==
    /\ rPc[r] = "usage" /\ rUser[r] # NoResult
    /\ LET saved == incrementMonthlyScan(rUser[r])
       IN  /\ rUser' = [rUser EXCEPT ![r] = saved]
           /\ dbUser' = [dbUser EXCEPT !.attemptsUsed = saved.attemptsUsed,
                                       !.monthlyScansUsed = saved.monthlyScansUsed]
    /\ rPc' = [rPc EXCEPT ![r] = "link"]
    /\ UNCHANGED <<dbAnonymousScans, dbScans, reqs, rRes>>
    /\ UNCHANGED <<analyzerVars, runVars, multiVars, warnVars, envVars, limiterVars, authVars, checkVars>>

\* req.user.scans.push(scan._id); await req.user.save()
LinkScan(r) ==
    /\ rPc[r] = "link"
    /\ rUser' = [rUser EXCEPT ![r].scans = @ \cup {r}]
    /\ dbUser' = [dbUser EXCEPT !.scans = @ \cup {r}]
    /\ rPc' = [rPc EXCEPT ![r] = "save"]
    /\ UNCHANGED <<dbAnonymousScans, dbScans, reqs, rRes>>
    /\ UNCHANGED <<analyzerVars, runVars, multiVars, warnVars, envVars, limiterVars, authVars, checkVars>>

\* await recordAnonymousScan(req, scan._id)
RecordAnonymous(r) ==
    /\ rPc[r] = "usage" /\ rUser[r] = NoResult
    /\ dbAnonymousScans' = dbAnonymousScans \cup {anonymousScan(r)}
    /\ rPc' = [rPc EXCEPT ![r] = "save"]
    /\ UNCHANGED <<dbUser, dbScans, reqs, rUser, rRes>>
    /\ UNCHANGED <<analyzerVars, runVars, multiVars, warnVars, envVars, limiterVars, authVars, checkVars>>

\* await scan.save() with status completed, then the 200 response; when
\* the save rejects, the catch block sets status failed and saves again,
\* and when that save rejects too the handler's promise rejects with the
\* document left as it was stored
SaveScan(r) ==
    /\ rPc[r] = "save"
    /\ IF reqs[r].saves
       THEN /\ dbScans' = [dbScans EXCEPT ![r] = "completed"]
            /\ Respond(r, [status |-> 200, requiresUpgrade |-> FALSE,
                           requiresAuth |-> FALSE, warnings |-> warningsOf(r)])
       ELSE \E again \in BOOLEAN :
              IF again
              THEN /\ dbScans' = [dbScans EXCEPT ![r] = "failed"]
                   /\ Respond(r, [status |-> 500, requiresUpgrade |-> FALSE,
                                  requiresAuth |-> FALSE, warnings |-> {}])
              ELSE /\ rPc' = [rPc EXCEPT ![r] = "rejected"]
                   /\ UNCHANGED <<dbScans, rRes>>
    /\ UNCHANGED <<dbUser, dbAnonymousScans, reqs, rUser>>
    /\ UNCHANGED <<analyzerVars, runVars, multiVars, warnVars, envVars, limiterVars, authVars, checkVars>>

\* thirty days go by: no stored record is within the IP window any more
ThirtyDaysPass ==
    /\ \E rec \in dbAnonymousScans : rec.recent
    /\ dbAnonymousScans' = {[rec EXCEPT !.recent = FALSE] : rec \in dbAnonymousScans}
    /\ UNCHANGED <<dbUser, dbScans, reqs, rPc, rUser, rRes>>
    /\ UNCHANGED <<analyzerVars, runVars, multiVars, warnVars, envVars, limiterVars, authVars, checkVars>>

\* the TTL index on usedAt deletes a record older than 30 days
ExpireRecord ==
    /\ \E rec \in dbAnonymousScans :
        /\ ~rec.recent
        /\ dbAnonymousScans' = dbAnonymousScans \ {rec}
    /\ UNCHANGED <<dbUser, dbScans, reqs, rPc, rUser, rRes>>
    /\ UNCHANGED <<analyzerVars, runVars, multiVars, warnVars, envVars, limiterVars, authVars, checkVars>>

RequestsReceived(n) ==
    /\ dbScans = [r \in 1..n |-> "none"]
    /\ rPc = [r \in 1..n |-> "received"]
    /\ rUser = [r \in 1..n |-> NoResult]
    /\ rRes = [r \in 1..n |-> NoResult]

\* one free-tier user, freshly signed up, sends every request
InitFreeTier ==
    /\ dbUser = NewUser
    /\ dbAnonymousScans = {}
    /\ reqs \in [1..MaxRequests ->
                   { [token |-> TRUE, visitorId |-> "", ip |-> "ip1",
                      fingerprint |-> "", seo |-> s, llm |-> s, saves |-> TRUE] :
                     s \in Settled }]
    /\ RequestsReceived(MaxRequests)
    /\ openrouterKey = FALSE /\ OtherKeysSet
    /\ AnalyzerIdle /\ RunIdle /\ MultiIdle /\ WarnIdle /\ LimiterIdle /\ AuthIdle /\ ChecksIdle

NextFreeTier ==
    \E r \in 1..MaxRequests :
        \/ optionalAuth(r)
        \/ CheckUser(r)
        \/ RunAnalyses(r)
        \/ RecordUser(r)
        \/ LinkScan(r)
        \/ SaveScan(r)

SpecFreeTier == InitFreeTier /\ [][NextFreeTier]_vars

\* requests without a token, from one or two visitors
InitAnonymous ==
    /\ dbUser = NoResult
    /\ dbAnonymousScans = {}
    /\ reqs \in [1..MaxAnonRequests ->
                   { [token |-> FALSE, visitorId |-> v, ip |-> i,
                      fingerprint |-> f, seo |-> s, llm |-> s, saves |-> TRUE] :
                     v \in {"", "v1", "v2"}, i \in {"ip1", "ip2"},
                     f \in {"", "f1", "f2"}, s \in Settled }]
    /\ RequestsReceived(MaxAnonRequests)
    /\ openrouterKey = FALSE /\ OtherKeysSet
    /\ AnalyzerIdle /\ RunIdle /\ MultiIdle /\ WarnIdle /\ LimiterIdle /\ AuthIdle /\ ChecksIdle

NextAnonymous ==
    \/ \E r \in 1..MaxAnonRequests :
        \/ optionalAuth(r)
        \/ CheckAnonymous(r)
        \/ RunAnalyses(r)
        \/ RecordAnonymous(r)
        \/ SaveScan(r)
    \/ ThirtyDaysPass
    \/ ExpireRecord

SpecAnonymous == InitAnonymous /\ [][NextAnonymous]_vars

Completed == { r \in DOMAIN dbScans : dbScans[r] = "completed" }

\* C19: a free-tier user never completes more than 3 scans in total; the
\* stored attemptsUsed never exceeds 3, and a request whose user document
\* shows attemptsUsed = 3 is answered 403 before any analysis runs.
C19_Original ==
    dbUser # NoResult =>
        /\ Cardinality(Completed) <= 3
        /\ dbUser.attemptsUsed <= 3
        /\ \A r \in DOMAIN rPc :
            /\ rPc[r] \in {"analysis", "usage"} => rUser[r].attemptsUsed < 3
            /\ (rRes[r] # NoResult /\ rRes[r].status = 403) => dbScans[r] = "none"

\* four requests sent together all loaded attemptsUsed = 0: four scans are
\* completed and linked to the user, and the stored counter is 1
C19_Witness ==
    /\ dbUser # NoResult
    /\ Cardinality(Completed) = 4
    /\ dbUser.scans = 1..4
    /\ dbUser.attemptsUsed = 1
    /\ \A r \in 1..4 : rRes[r] # NoResult /\ rRes[r].status = 200

\* two requests are about the same visitor
SameVisitor(a, b) ==
    \/ reqs[a].visitorId # "" /\ reqs[a].visitorId = reqs[b].visitorId
    \/ reqs[a].fingerprint # "" /\ reqs[a].fingerprint = reqs[b].fingerprint

\* C20: of the unauthenticated requests carrying the same visitorId or the
\* same device fingerprint at most one scan is completed and recorded, and
\* no two records of the last 30 days carry the same IP.
C20_Original ==
    dbUser = NoResult =>
        /\ \A a, b \in DOMAIN reqs :
            (a # b /\ SameVisitor(a, b)) => ~({a, b} \subseteq Completed)
        /\ \A x, y \in dbAnonymousScans :
            (x # y /\ x.recent /\ y.recent) => x.ipHash # y.ipHash

\* two requests with the same visitorId, IP and fingerprint, sent together:
\* both scans are completed, both are recorded, no time has passed
C20_Witness ==
    /\ dbUser = NoResult /\ DOMAIN reqs = 1..2
    /\ reqs[1] = reqs[2] /\ reqs[1].visitorId = "v1" /\ reqs[1].fingerprint = "f1"
    /\ Completed = {1, 2}
    /\ dbAnonymousScans = {anonymousScan(1), anonymousScan(2)}
    /\ rRes[1] # NoResult /\ rRes[1].status = 200
    /\ rRes[2] # NoResult /\ rRes[2].status = 200

(***************************************************************************)
(* POST /api/analyze: partial failures and the usage counter (SpecAnalyze) *)
(***************************************************************************)

MaxAnalyzeRequests == 2

\* a subscriber of the starter tier
StarterUser == [NewUser EXCEPT !.tier = "starter", !.isPremium = TRUE]

\* requests of the signed-up user and of anonymous visitors; each analysis
\* half settles either way and the save of the results resolves or rejects
InitAnalyze ==
    /\ dbUser \in {NewUser, StarterUser}
    /\ dbAnonymousScans = {}
    /\ reqs \in [1..MaxAnalyzeRequests ->
                   [token : BOOLEAN, visitorId : {"v1", "v2"}, ip : {"ip1"},
                    fingerprint : {""}, seo : Settled, llm : Settled,
                    saves : BOOLEAN]]
    /\ RequestsReceived(MaxAnalyzeRequests)
    /\ openrouterKey = FALSE /\ OtherKeysSet
    /\ AnalyzerIdle /\ RunIdle /\ MultiIdle /\ WarnIdle /\ LimiterIdle /\ AuthIdle /\ ChecksIdle

NextAnalyze ==
    \E r \in 1..MaxAnalyzeRequests :
        \/ optionalAuth(r)
        \/ CheckUser(r)
        \/ CheckAnonymous(r)
        \/ RunAnalyses(r)
        \/ RecordUser(r)
        \/ LinkScan(r)
        \/ RecordAnonymous(r)
        \/ SaveScan(r)

SpecAnalyze == InitAnalyze /\ [][NextAnalyze]_vars

\* the handler of request r has returned or its promise was rejected
Finished(r) == rPc[r] \in {"responded", "rejected"}

Answered(r, status) == rRes[r] # NoResult /\ rRes[r].status = status

\* C26: the request is answered 200 with the scan 'completed' whenever at
\* least one of the two analyses succeeded, the failed half listed in
\* warnings; 500 with the scan 'failed' only when both failed; no scan is
\* left in 'processing' once the response is sent, and a scan that is
\* 'completed' or 'failed' keeps that status.
C26_Original ==
    /\ [](\A r \in DOMAIN rPc :
            /\ (Finished(r) /\ dbScans[r] # "none" /\ ~(seoError(r) /\ llmError(r))) =>
                  /\ Answered(r, 200)
                  /\ dbScans[r] = "completed"
                  /\ rRes[r].warnings = warningsOf(r)
            /\ Answered(r, 500) =>
                  /\ dbScans[r] = "failed"
                  /\ seoError(r) /\ llmError(r)
            /\ rRes[r] # NoResult => dbScans[r] # "processing")
    /\ [][\A r \in DOMAIN dbScans :
            dbScans[r] \in {"completed", "failed"} => dbScans'[r] = dbScans[r]]_vars

\* the SEO analysis succeeded, the save of the results was rejected: the
\* request is answered 500 and the scan is 'failed'
C26_Witness ==
    \E r \in DOMAIN rPc :
        /\ ~seoError(r) /\ llmError(r) /\ ~reqs[r].saves
        /\ Answered(r, 500)
        /\ dbScans[r] = "failed"

\* both saves were rejected: the handler ended without a response and the
\* scan is left in 'processing'
C26_WitnessProcessing ==
    \E r \in DOMAIN rPc :
        /\ ~seoError(r) /\ ~llmError(r)
        /\ rPc[r] = "rejected" /\ rRes[r] = NoResult
        /\ dbScans[r] = "processing"

\* the LLM analysis failed, the SEO analysis did not: 200 with the warning
C26_WitnessWarning ==
    \E r \in DOMAIN rPc :
        /\ Answered(r, 200) /\ rRes[r].warnings = {"llm"}
        /\ dbScans[r] = "completed"

\* attemptsUsed for the free tier, monthlyScansUsed for the paid tiers
usageCounter(user) ==
    IF user.tier = "free" THEN user.attemptsUsed ELSE user.monthlyScansUsed

\* the requests of the user whose scan is stored as completed
CompletedForUser == { r \in Completed : reqs[r].token }

\* C27: the user's usage counter goes up exactly once for each request that
\* ends with a 'completed' scan and is left unchanged by every request that
\* is rejected or ends with a 'failed' scan: when no request is in flight,
\* the counter is the number of the user's completed scans.
C27_Original ==
    (\A r \in DOMAIN rPc : Finished(r)) =>
        usageCounter(dbUser) = Cardinality(CompletedForUser)

\* two requests of the user sent together are both completed and the
\* counter stands at 1
C27_Witness ==
    /\ \A r \in DOMAIN rPc : Answered(r, 200)
    /\ CompletedForUser = {1, 2}
    /\ usageCounter(dbUser) = 1

\* a single request of the user is answered 500 with the scan 'failed' and
\* the counter stands at 1
C27_WitnessFailed ==
    /\ reqs[1].token /\ ~reqs[2].token
    /\ \A r \in DOMAIN rPc : Finished(r)
    /\ Answered(1, 500) /\ dbScans[1] = "failed"
    /\ usageCounter(dbUser) = 1

(***************************************************************************)
(* POST /api/auth/send-otp and /api/auth/verify-otp (SpecAuth)             *)
(***************************************************************************)

\* OTPs mailed in one behaviour
MaxOtps == 2

\* generateOTP: the n-th code mailed to the email
OtpCodes == <<"otp1", "otp2", "otp3">>
generateOTP(n) == OtpCodes[n]

\* the owner of the mailbox and somebody else who knows the email address
Requesters == {"owner", "other"}

\* what a requester can put into the otp field: nothing, a guess, and for
\* the owner any code mailed so far
OtpsOf(by) ==
    {"", "000000"} \cup
    (IF by = "owner" THEN { generateOTP(n) : n \in 1..otpsSent } ELSE {})

\* verifyOTP(storedOTP, storedExpiresAt, providedOTP); expired stands for
\* new Date() > storedExpiresAt
verifyOTP(storedOTP, expired, providedOTP) ==
    IF storedOTP = "" THEN FALSE
    ELSE IF expired THEN FALSE
    ELSE storedOTP = providedOTP

\* POST /api/auth/send-otp for the email, in mode signup or login
SendOtp ==
    /\ otpsSent < MaxOtps
    /\ \E mode \in {"signup", "login"} :
          ~(mode = "signup" /\ authUser # NoResult /\ authUser.brandName)
    /\ otpsSent' = otpsSent + 1
    /\ authUser' =
          IF authUser = NoResult
          THEN [otpCode |-> generateOTP(otpsSent + 1), otpExpired |-> FALSE,
                otpVerified |-> FALSE, brandName |-> FALSE, country |-> FALSE]
          ELSE [authUser EXCEPT !.otpCode = generateOTP(otpsSent + 1),
                                !.otpExpired = FALSE, !.otpVerified = FALSE]
    /\ presented' = {}
    /\ UNCHANGED lastVerify
    /\ UNCHANGED <<analyzerVars, runVars, multiVars, warnVars, envVars, requestVars, limiterVars, checkVars>>

\* ten minutes after the OTP was mailed
OtpExpires ==
    /\ authUser # NoResult
    /\ authUser.otpCode # "" /\ ~authUser.otpExpired
    /\ authUser' = [authUser EXCEPT !.otpExpired = TRUE]
    /\ UNCHANGED <<otpsSent, presented, lastVerify>>
    /\ UNCHANGED <<analyzerVars, runVars, multiVars, warnVars, envVars, requestVars, limiterVars, checkVars>>

Verified(by, otp, status, token) ==
    [by |-> by, otp |-> otp, status |-> status, token |-> token,
     known |-> by \in presented]

\* POST /api/auth/verify-otp with the email, by one requester
VerifyOtp(by, otp, brandName, country) ==
    /\ authUser # NoResult
    /\ LET user == authUser
           isNewUser == ~user.brandName
           isCompletingRegistration ==
               isNewUser /\ brandName /\ country /\ user.otpVerified /\ user.otpCode = ""
           isValid == verifyOTP(user.otpCode, user.otpExpired, otp)
           checked == IF ~isCompletingRegistration /\ user.otpCode # ""
                      THEN [user EXCEPT !.otpVerified = TRUE, !.otpCode = "",
                                        !.otpExpired = FALSE]
                      ELSE user
           updated == [checked EXCEPT !.brandName = @ \/ brandName,
                                      !.country = @ \/ country]
       IN  IF otp = "" /\ ~isCompletingRegistration
           THEN /\ lastVerify' = Verified(by, otp, 400, FALSE)
                /\ UNCHANGED <<authUser, presented>>
           ELSE IF ~isCompletingRegistration /\ user.otpCode = "" /\ ~user.otpVerified
           THEN /\ lastVerify' = Verified(by, otp, 400, FALSE)
                /\ UNCHANGED <<authUser, presented>>
           ELSE IF ~isCompletingRegistration /\ user.otpCode # "" /\ ~isValid
           THEN /\ lastVerify' = Verified(by, otp, 400, FALSE)
                /\ UNCHANGED <<authUser, presented>>
           ELSE /\ authUser' = updated
                /\ presented' = IF ~isCompletingRegistration /\ user.otpCode # ""
                                THEN presented \cup {by} ELSE presented
                /\ lastVerify' =
                      IF isNewUser /\ ~(updated.brandName /\ updated.country)
                      THEN Verified(by, otp, 200, FALSE)
                      ELSE Verified(by, otp, 200, TRUE)
    /\ UNCHANGED otpsSent
    /\ UNCHANGED <<analyzerVars, runVars, multiVars, warnVars, envVars, requestVars, limiterVars, checkVars>>

InitAuth ==
    /\ AuthIdle
    /\ openrouterKey = FALSE /\ OtherKeysSet
    /\ AnalyzeIdle /\ LimiterIdle /\ ChecksIdle
    /\ AnalyzerIdle /\ RunIdle /\ MultiIdle /\ WarnIdle

NextAuth ==
    \/ SendOtp
    \/ OtpExpires
    \/ \E by \in Requesters : \E otp \in OtpsOf(by) :
         \E brandName \in BOOLEAN, country \in BOOLEAN :
            VerifyOtp(by, otp, brandName, country)

SpecAuth == InitAuth /\ [][NextAuth]_vars

\* C29: verify-otp issues a token only if the OTP sent last to the email
\* was presented correctly and unexpired, in that request or in the
\* requester's preceding verification step; a request with no OTP or a
\* wrong OTP that was not preceded by the requester's own successful
\* verification never obtains a token.
C29_Original ==
    (lastVerify # NoResult /\ lastVerify.token) =>
        \/ lastVerify.by \in presented
        \/ lastVerify.known

\* after the owner has logged in, somebody else posts the email with the
\* OTP 000000 and is given a token
C29_Witness ==
    /\ lastVerify # NoResult
    /\ lastVerify.by = "other" /\ lastVerify.otp = "000000"
    /\ lastVerify.status = 200 /\ lastVerify.token
    /\ presented = {"owner"}
    /\ authUser.otpVerified /\ authUser.otpCode = ""

\* somebody else completes the registration the owner verified, with no
\* OTP at all, and is given the token
C29_WitnessRegistration ==
    /\ lastVerify # NoResult
    /\ lastVerify.by = "other" /\ lastVerify.otp = ""
    /\ lastVerify.token
    /\ presented = {"owner"} /\ otpsSent = 1

\* a wrong OTP against a pending one is refused
C29_WitnessRefused ==
    /\ lastVerify # NoResult
    /\ lastVerify.otp = "000000" /\ lastVerify.status = 400
    /\ authUser.otpCode # "" /\ ~authUser.otpExpired

(***************************************************************************)
(* checkAllModels calls in flight together (SpecOverlap)                   *)
(***************************************************************************)

\* checkAllModels calls of one behaviour
MaxCalls == 3

\* the order the entries of results are assigned in
resultOrder == IF openrouterKey THEN ResultOrderWithKey ELSE ResultOrderWithoutKey

PositionIn(seq, key) == CHOOSE i \in DOMAIN seq : seq[i] = key

\* the entries assigned when n probes have answered: everything before the
\* probe that is awaited next
assignedAfter(n) ==
    IF n = Len(probesSent) THEN Len(resultOrder)
    ELSE PositionIn(resultOrder, probesSent[n + 1]) - 1

\* const results = {}: the local object of one call after these answers
resultsAfter(answers) ==
    [key \in { resultOrder[i] : i \in 1..assignedAfter(Len(answers)) } |->
        IF ~keyOf(MODELS[key].provider) THEN KeyNotConfigured
        ELSE IF MODELS[key].deprecated THEN ModelDeprecated
        ELSE probeResult(answers[PositionIn(probesSent, key)])]

\* a cache that takes every entry as soon as it is assigned
updateCacheEntrywise(results_, done) ==
    [lastChecked |-> IF done THEN healthStatus.lastChecked + 1
                     ELSE healthStatus.lastChecked,
     order |-> resultOrder, models |-> results_]

\* healthStatus.lastChecked = new Date(); healthStatus.models = results,
\* after the last probe
updateCache(results_, done) ==
    IF done
    THEN [lastChecked |-> healthStatus.lastChecked + 1,
          order |-> resultOrder, models |-> results_]
    ELSE healthStatus

\* call c goes on with these answers up to its next await, or to its end
Proceed(c, answers) ==
    LET done == Len(answers) = Len(probesSent)
        results_ == resultsAfter(answers)
    IN  /\ calls' = [calls EXCEPT ![c] =
              [pc |-> IF done THEN "returned" ELSE "probing",
               answers |-> answers,
               results |-> IF done THEN results_ ELSE NoResult]]
        /\ healthStatus' = updateCache(results_, done)
        /\ finishOrder' = IF done THEN Append(finishOrder, c) ELSE finishOrder

\* checkAllModels() is called while others may be in flight
StartCheck(c) ==
    /\ calls[c].pc = "idle"
    /\ Proceed(c, <<>>)
    /\ UNCHANGED <<wPc, wSelected, wIdx, wAttempt, wRequests, wHealthAt, wReturn,
                   warning, wLast, healthLog>>
    /\ UNCHANGED <<analyzerVars, runVars, multiVars, envVars, requestVars, limiterVars, authVars>>

\* the probe call c awaits answers
ProbeAnswers(c) ==
    /\ calls[c].pc = "probing"
    /\ \E outcome \in ProbeOutcomes(probesSent[Len(calls[c].answers) + 1]) :
          Proceed(c, Append(calls[c].answers, outcome))
    /\ UNCHANGED <<wPc, wSelected, wIdx, wAttempt, wRequests, wHealthAt, wReturn,
                   warning, wLast, healthLog>>
    /\ UNCHANGED <<analyzerVars, runVars, multiVars, envVars, requestVars, limiterVars, authVars>>

InitOverlap ==
    /\ geminiKey \in BOOLEAN /\ huggingfaceKey \in BOOLEAN
    /\ openrouterKey = FALSE
    /\ calls = [c \in 1..MaxCalls |->
                  [pc |-> "idle", answers |-> <<>>, results |-> NoResult]]
    /\ finishOrder = <<>>
    /\ WarnIdle
    /\ AnalyzeIdle /\ LimiterIdle /\ AuthIdle
    /\ AnalyzerIdle /\ RunIdle /\ MultiIdle

NextOverlap ==
    \E c \in 1..MaxCalls :
        \/ StartCheck(c)
        \/ ProbeAnswers(c)

SpecOverlap == InitOverlap /\ [][NextOverlap]_vars

\* the complete result map the answers of call c make
completeResults(c) ==
    checkResults([key \in Probed |-> calls[c].answers[PositionIn(probesSent, key)]])

LastFinished == finishOrder[Len(finishOrder)]

InFlight == { c \in DOMAIN calls : calls[c].pc = "probing" }

\* C30: the health cache is replaced as a whole: whatever calls are in
\* flight, getHealthStatus().models is the initial empty map or the complete
\* result map of one finished checkAllModels, and the call that finished
\* last determines the cache and lastChecked.
C30_ReplacedAsAWhole ==
    IF finishOrder = <<>>
    THEN healthStatus.models = <<>> /\ healthStatus.lastChecked = 0
    ELSE /\ healthStatus.models = completeResults(LastFinished)
         /\ healthStatus.models = calls[LastFinished].results
         /\ DOMAIN healthStatus.models = DOMAIN MODELS
         /\ healthStatus.lastChecked = Len(finishOrder)

\* the call started first returns last, another call has returned in
\* between with a different answer of Gemini, and a third is in flight
\* with one probe answered
C30_Witness ==
    /\ geminiKey /\ huggingfaceKey
    /\ finishOrder = <<2, 1>>
    /\ calls[1].answers[1] = "ok" /\ calls[2].answers[1] = "500"
    /\ InFlight = {3} /\ Len(calls[3].answers) = 1
    /\ healthStatus.models["gemini"].healthy
    /\ healthStatus.lastChecked = 2

\* calls are in flight with answers and the cache is still empty
C30_WitnessEmpty ==
    /\ finishOrder = <<>>
    /\ InFlight = {1, 2}
    /\ Len(calls[1].answers) = 1 /\ Len(calls[2].answers) = 1
    /\ healthStatus.models = <<>>

(***************************************************************************)
(* The pause between the prompts of one run (SpecRun)                      *)
(***************************************************************************)

\* the run stands between two prompts: one is recorded, the next is due
BetweenPrompts == pc = "loop" /\ 1 < idx /\ idx <= Len(promptsToUse)

LastEvent == promptLog[Len(promptLog)]

\* C21: between any two consecutive prompt dispatches of one run there is a
\* pause of 500 ms, whether the earlier prompt succeeded or failed: when the
\* next prompt is due, the last thing the run did was that sleep.
C21_Original ==
    BetweenPrompts =>
        /\ promptLog # <<>>
        /\ LastEvent = Event("sleep", promptPause, TRUE)

\* a free run whose first prompt failed for good stands before its second
\* prompt, and the last thing it did was the failed call
C21_Witness ==
    /\ BetweenPrompts /\ ~isPremium /\ idx = 2
    /\ results[1].hasError
    /\ promptLog # <<>>
    /\ LastEvent.ev = "call" /\ ~LastEvent.ok
    /\ EventsOf({"sleep"}) = {}

(***************************************************************************)
(* Supplementary recommendations (SpecRun)                                 *)
(***************************************************************************)

\* the analysis of the prompt recorded last, from what the providers gave
LastAnalysis ==
    analyzeResponse(analysisResult.response, domainOfRun, analysisResult.parsedResponse)

\* the prompt recorded last went through getRecommendations
RecommendationsAsked == EventsOf({"rec"}) # {}

C22_WitnessScored ==
    /\ PromptDone /\ ~RecommendationsAsked
    /\ ~LastEntry.hasError /\ LastEntry.score > 0

(***************************************************************************)
(* What generateWarningRecommendation resolves to (SpecWarn)               *)
(***************************************************************************)

RequestsSent == { r \in DOMAIN wRequests : wRequests[r].ev = "request" }

\* every model of MODEL_PRIORITY was asked
AllModelsAsked == RequestedAt = DOMAIN MODEL_PRIORITY

\* C23: generateWarningRecommendation never rejects; without the OpenRouter
\* key it returns the fallback and sends no request; with the key it
\* returns the fallback or the output of the model asked last, tagged with
\* that model.
C23_Original ==
    /\ wPc # "rejected"
    /\ wPc = "done" =>
        /\ ~openrouterKey => (wReturn = "fallback" /\ wRequests = <<>>)
        /\ openrouterKey =>
            /\ RequestsSent # {}
            /\ wReturn \in {"fallback", wRequests[Len(wRequests)].model}

\* the call was made without the key and with a warning that is no string,
\* and rejected before any request
C23_Witness ==
    /\ wPc = "rejected"
    /\ ~openrouterKey /\ warning = "number"
    /\ wRequests = <<>> /\ wReturn = "none"

\* with the key: every model failed or answered no JSON, and the call
\* rejected after the last
C23_WitnessAllFailed ==
    /\ wPc = "rejected"
    /\ openrouterKey /\ warning = "number"
    /\ AllModelsAsked /\ wReturn = "none"

(***************************************************************************)
(* The waits of tryModelRequest (SpecWarn)                                 *)
(***************************************************************************)

\* what was done for the i-th model of MODEL_PRIORITY, in order
EventsFor(i) == SelectSeq(wRequests, LAMBDA e : e.model = MODEL_PRIORITY[i])

WaitsFor(i) ==
    LET sleeps == SelectSeq(EventsFor(i), LAMBDA e : e.ev = "sleep")
    IN  [k \in DOMAIN sleeps |-> sleeps[k].n]

LastSent == wRequests[Len(wRequests)]

\* the model asked last
LastAsked == CHOOSE i \in DOMAIN MODEL_PRIORITY : MODEL_PRIORITY[i] = LastSent.model

\* the last request was rate-limited and tryModelRequest threw instead of
\* waiting
GivenUpRateLimited ==
    /\ wLast = "429" /\ wRequests # <<>>
    /\ LastSent.ev = "request"

\* C24: a model is given up on a rate limit only after waits of 2 s and then
\* 4 s, and after a request that failed without a rate limit nothing more is
\* sent to the same model.
C24_Original ==
    /\ GivenUpRateLimited =>
         WaitsFor(LastAsked) = << rateLimitDelay, 2 * rateLimitDelay >>
    /\ (wLast = "500" /\ wPc = "request") => wIdx # LastAsked

\* the first model was rate-limited twice, with one wait of 2 s in between,
\* and the request loop went on to the second model
C24_Witness ==
    /\ wIdx = 2 /\ wPc = "request"
    /\ GivenUpRateLimited /\ LastAsked = 1
    /\ Len(EventsFor(1)) = 3
    /\ WaitsFor(1) = << rateLimitDelay >>

\* ---------------------------------------------------------------------
\* createRateLimiter (middleware/auth.js): the in-memory rate limiters.
\* Time is counted in minutes: windowMs and the 60000 ms an entry is kept
\* after its window are whole minutes, Retry-After is in seconds.
\* ---------------------------------------------------------------------

\* requests of one key counted after the limit was first exceeded
MaxOver == 1
\* minutes the clock runs on after the first possible window
MaxAfter == 2

\* expiresAt = now + windowMs + 60000
expiryGrace == 1

strictRateLimiter == [name |-> "strict", windowMs |-> 15, max |-> 5]
analysisRateLimiter == [name |-> "analysis", windowMs |-> 60, max |-> 20]

\* the keys keyGenerator gives the requests: two (ip, email) pairs for the
\* strict limiter, one user for the analysis limiter
LimiterKeys(l) == IF l.name = "strict" THEN {"auth:ip1:a", "auth:ip1:b"}
                  ELSE {"analysis:user:u1"}

\* if (!rateLimitData || rateLimitData.expiresAt < now)
windowExpired(data) == IF data = NoResult THEN TRUE ELSE data.expiresAt < now

limitExceededLate(count, max) == count > max + 1

\* if (rateLimitData.count > max)
limitExceeded(count, max) == count > max

\* Math.ceil((rateLimitData.resetAt - now) / 1000), in seconds
retryAfter(data) == (data.resetAt - now) * 60

Answer(key, status, retry, data, opened) ==
    [key |-> key, status |-> status, retryAfter |-> retry, at |-> now,
     resetAt |-> IF data = NoResult THEN -1 ELSE data.resetAt,
     before |-> admitted[key], opened |-> opened]

\* one request passing through the middleware createRateLimiter returns
LimitedRequest(key) ==
    LET data == rateLimitStore[key]
    IN  /\ IF windowExpired(data) THEN TRUE
           ELSE data.count < limiter.max + MaxOver
        /\ IF windowExpired(data)
           THEN /\ rateLimitStore' = [rateLimitStore EXCEPT ![key] =
                      [count |-> 1, resetAt |-> now + limiter.windowMs,
                       expiresAt |-> now + limiter.windowMs + expiryGrace]]
                /\ admitted' = [admitted EXCEPT ![key] = 1]
                /\ lastAnswer' = Answer(key, 200, 0, data, TRUE)
           ELSE LET counted == [data EXCEPT !.count = data.count + 1]
                IN  /\ rateLimitStore' = [rateLimitStore EXCEPT ![key] = counted]
                    /\ IF limitExceeded(counted.count, limiter.max)
                       THEN /\ admitted' = admitted
                            /\ lastAnswer' = Answer(key, 429, retryAfter(counted), data, FALSE)
                       ELSE /\ admitted' = [admitted EXCEPT ![key] =
                                  IF now <= data.resetAt THEN @ + 1 ELSE @]
                            /\ lastAnswer' = Answer(key, 200, 0, data, FALSE)
        /\ UNCHANGED <<now, limiter>>
        /\ UNCHANGED <<analyzerVars, runVars, multiVars, warnVars, envVars, requestVars, authVars, checkVars>>

\* the setInterval callback that drops expired entries
CleanupExpired ==
    /\ \E key \in DOMAIN rateLimitStore :
          rateLimitStore[key] # NoResult /\ rateLimitStore[key].expiresAt < now
    /\ rateLimitStore' = [key \in DOMAIN rateLimitStore |->
          IF rateLimitStore[key] # NoResult /\ rateLimitStore[key].expiresAt < now
          THEN NoResult ELSE rateLimitStore[key]]
    /\ UNCHANGED <<now, limiter, admitted, lastAnswer>>
    /\ UNCHANGED <<analyzerVars, runVars, multiVars, warnVars, envVars, requestVars, authVars, checkVars>>

\* a minute passes
MinutePasses ==
    /\ now < limiter.windowMs + MaxAfter
    /\ now' = now + 1
    /\ UNCHANGED <<rateLimitStore, limiter, admitted, lastAnswer>>
    /\ UNCHANGED <<analyzerVars, runVars, multiVars, warnVars, envVars, requestVars, authVars, checkVars>>

InitLimiter ==
    /\ now = 0
    /\ limiter \in {strictRateLimiter, analysisRateLimiter}
    /\ rateLimitStore = [key \in LimiterKeys(limiter) |-> NoResult]
    /\ admitted = [key \in LimiterKeys(limiter) |-> 0]
    /\ lastAnswer = NoResult
    /\ openrouterKey = FALSE /\ OtherKeysSet
    /\ AnalyzeIdle /\ AuthIdle /\ ChecksIdle
    /\ AnalyzerIdle /\ RunIdle /\ MultiIdle /\ WarnIdle

NextLimiter ==
    \/ \E key \in DOMAIN rateLimitStore : LimitedRequest(key)
    \/ CleanupExpired
    \/ MinutePasses

SpecLimiter == InitLimiter /\ [][NextLimiter]_vars

\* the last request fell into the window its key had open
InOpenWindow ==
    /\ lastAnswer # NoResult
    /\ ~lastAnswer.opened
    /\ lastAnswer.at <= lastAnswer.resetAt

C25_WitnessAnalysis ==
    /\ limiter.name = "analysis"
    /\ InOpenWindow
    /\ lastAnswer.status = 429 /\ lastAnswer.before = 20
    /\ lastAnswer.at = 59

\* C28: 429 is answered only while the key's window is still open
\* (now < resetAt), so Retry-After is at least 1 second; the first request
\* of a key arriving after resetAt opens a new window with count 1 and is
\* admitted.
C28_Original ==
    lastAnswer # NoResult =>
        /\ lastAnswer.status = 429 =>
              /\ lastAnswer.at < lastAnswer.resetAt
              /\ lastAnswer.retryAfter >= 1
        /\ (lastAnswer.resetAt >= 0 /\ lastAnswer.at > lastAnswer.resetAt) =>
              /\ lastAnswer.opened
              /\ lastAnswer.status = 200
              /\ rateLimitStore[lastAnswer.key].count = 1

\* a request one minute after resetAt is still counted in the old window
\* and answered 429 with a negative Retry-After
C28_Witness ==
    /\ lastAnswer # NoResult
    /\ lastAnswer.status = 429
    /\ lastAnswer.at = lastAnswer.resetAt + 1
    /\ lastAnswer.retryAfter < 0
    /\ ~lastAnswer.opened
    /\ rateLimitStore[lastAnswer.key].count > limiter.max

\* a request arriving after expiresAt does open a new window
C28_WitnessRenewed ==
    /\ lastAnswer # NoResult
    /\ lastAnswer.opened /\ lastAnswer.resetAt >= 0
    /\ lastAnswer.at > lastAnswer.resetAt + expiryGrace
    /\ lastAnswer.status = 200

====
